---------------------------- MODULE Spec2Model ----------------------------
(***************************************************************************)
(* Patch AI (src/Patch AI/src/brain.py): the reminder ledger, the polling  *)
(* task and the foreground intent router.                                  *)
(*                                                                         *)
(* Text is modelled by TLA+ strings, on which TLC evaluates Len, Head,     *)
(* Tail, SubSeq and \o, so that substring tests, replace(), strip() and    *)
(* the regular expressions of the source are computed character by         *)
(* character.  Wall-clock time is epoch seconds read at whole seconds,     *)
(* and local time is taken to be UTC.                                      *)
(***************************************************************************)
EXTENDS Integers, Sequences, FiniteSets, TLC

VARIABLES
    file,              \* the reminder ledger as persisted in REMINDERS_FILE
    now,               \* the wall clock, epoch seconds
    last,              \* what the last ledger operation did (its observable outcome)
    nSuccess,          \* number of add calls that returned SUCCESS
    ticks,             \* number of times the clock was advanced
    ops,               \* number of ledger operations called directly
    interaction_mode,  \* "Voice" or "Chat"
    is_sleeping,       \* the sleep flag of run_patch
    fg,                \* where run_patch is: start, turn, input, awaiting, done, failed, crashed
    bg,                \* where reminder_loop is: none, ready, loaded, sleeping
    run,               \* the task the event loop is running: "fg", "bg" or "idle"
    held,              \* per task, the ledger document it loaded and has not yet saved
    todo,              \* the handler steps left in the current turn
    user_input,        \* run_patch's user_input
    heard,             \* the input of the current turn as it was acquired
    handled,           \* the groups whose handlers ran in the current turn, in order
    turns,             \* number of inputs acquired
    messages,          \* run_patch's messages (the conversation in memory)
    memfile,           \* the conversation as persisted in MEMORY_FILE
    recognizer,        \* what the global r is bound to
    recovered,         \* the clock readings at which recover_missed_reminders completed
    polled,            \* whether reminder_loop has begun a check_reminders call
    called,            \* the ledger calls and CONFIRM prompts of the current turn, in order
    ollama             \* the last safe_ollama_chat of the current turn: its ollama.chat calls

ledgerVars == <<file, last, nSuccess>>

progVars ==
    <<interaction_mode, is_sleeping, fg, bg, run, held, todo, user_input, heard,
      handled, turns, messages, memfile, recognizer, recovered, polled, called,
      ollama>>

vars == <<file, now, last, nSuccess, ticks, ops, progVars>>

-----------------------------------------------------------------------------
(* Bounds of the model *)

\* how many times the clock is advanced in one run of the program
MaxTicks == 1

\* how many inputs the user gives in one run of the program
MaxTurns == 2

\* how many steps (ledger operations and clock advances) one run of the
\* operation-level specification makes
MaxOps == 3

-----------------------------------------------------------------------------
(* Program constants *)

MAX_REMINDERS == 20

ARCHIVE_RETENTION_DAYS == 14

\* seconds added to a recurring reminder when it fires (86400, "+24h")
Day == 86400

Hour == 3600

\* Python's None, for snoozed_until
None == -1

\* the first reading of the clock: 2024-01-01 12:00:00
T0 == 1704110400

-----------------------------------------------------------------------------
(* Strings *)

IsSpace(c) == c = " "

IsDigit(c) == c \in {"0", "1", "2", "3", "4", "5", "6", "7", "8", "9"}

DigitVal(c) ==
    CASE c = "0" -> 0 [] c = "1" -> 1 [] c = "2" -> 2 [] c = "3" -> 3
      [] c = "4" -> 4 [] c = "5" -> 5 [] c = "6" -> 6 [] c = "7" -> 7
      [] c = "8" -> 8 [] c = "9" -> 9

\* \w of the re module, for the characters the inputs are written in
IsWordChar(c) ==
    \/ IsDigit(c)
    \/ c \in {"a", "b", "c", "d", "e", "f", "g", "h", "i", "j", "k", "l", "m",
              "n", "o", "p", "q", "r", "s", "t", "u", "v", "w", "x", "y", "z",
              "A", "B", "C", "D", "E", "F", "G", "H", "I", "J", "K", "L", "M",
              "N", "O", "P", "Q", "R", "S", "T", "U", "V", "W", "X", "Y", "Z",
              "_"}

LowerChar(c) ==
    CASE c = "A" -> "a" [] c = "B" -> "b" [] c = "C" -> "c" [] c = "D" -> "d"
      [] c = "E" -> "e" [] c = "F" -> "f" [] c = "G" -> "g" [] c = "H" -> "h"
      [] c = "I" -> "i" [] c = "J" -> "j" [] c = "K" -> "k" [] c = "L" -> "l"
      [] c = "M" -> "m" [] c = "N" -> "n" [] c = "O" -> "o" [] c = "P" -> "p"
      [] c = "Q" -> "q" [] c = "R" -> "r" [] c = "S" -> "s" [] c = "T" -> "t"
      [] c = "U" -> "u" [] c = "V" -> "v" [] c = "W" -> "w" [] c = "X" -> "x"
      [] c = "Y" -> "y" [] c = "Z" -> "z" [] OTHER -> c

RECURSIVE Lower(_)
\* str.lower(), computed on the two halves of s
Lower(s) ==
    IF Len(s) = 0 THEN ""
    ELSE IF Len(s) = 1 THEN LowerChar(s)
    ELSE Lower(SubSeq(s, 1, Len(s) \div 2)) \o Lower(SubSeq(s, (Len(s) \div 2) + 1, Len(s)))

\* s[i:] with i counted from 1
From(s, i) == SubSeq(s, i, Len(s))

\* s.startswith(p) at position i (from 1)
StartsAt(s, i, p) == i + Len(p) - 1 <= Len(s) /\ SubSeq(s, i, i + Len(p) - 1) = p

\* p in s
Contains(s, p) == \E i \in 1..(Len(s) + 1) : StartsAt(s, i, p)

\* s.find(p) + 1, or 0 when p is not in s
Find(s, p) ==
    IF Contains(s, p)
    THEN CHOOSE i \in 1..(Len(s) + 1) :
            /\ StartsAt(s, i, p)
            /\ \A j \in 1..(i - 1) : ~StartsAt(s, j, p)
    ELSE 0

RECURSIVE Replace(_, _, _)
\* s.replace(p, q) for a non-empty p: every non-overlapping occurrence, left to right
Replace(s, p, q) ==
    LET i == Find(s, p)
    IN  IF i = 0 THEN s
        ELSE SubSeq(s, 1, i - 1) \o q \o Replace(From(s, i + Len(p)), p, q)

RECURSIVE LStrip(_)
LStrip(s) == IF s # "" /\ IsSpace(Head(s)) THEN LStrip(Tail(s)) ELSE s

RECURSIVE RStrip(_)
RStrip(s) ==
    IF s # "" /\ IsSpace(SubSeq(s, Len(s), Len(s)))
    THEN RStrip(SubSeq(s, 1, Len(s) - 1))
    ELSE s

\* str.strip()
Strip(s) == RStrip(LStrip(s))

RECURSIVE SplitLast(_, _)
\* s.split(p)[-1]: what follows the last occurrence of p (s itself when there is none)
SplitLast(s, p) ==
    LET i == Find(s, p)
    IN  IF i = 0 THEN s ELSE SplitLast(From(s, i + Len(p)), p)

\* f"{n:03d}"
Pad3(n) ==
    IF n < 10 THEN "00" \o ToString(n)
    ELSE IF n < 100 THEN "0" \o ToString(n)
    ELSE ToString(n)


\* the character of s at position i (from 1), "" past the end
Ch(s, i) == IF 1 <= i /\ i <= Len(s) THEN SubSeq(s, i, i) ELSE ""

RECURSIVE DigitsLen(_, _)
\* the length of the run of digits of s that starts at position i
DigitsLen(s, i) == IF IsDigit(Ch(s, i)) THEN 1 + DigitsLen(s, i + 1) ELSE 0

RECURSIVE SpacesLen(_, _)
\* the length of the run of white space of s that starts at position i
SpacesLen(s, i) == IF Ch(s, i) # "" /\ IsSpace(Ch(s, i)) THEN 1 + SpacesLen(s, i + 1) ELSE 0

RECURSIVE ParseInt(_)
\* int(s) for a string of digits
ParseInt(s) ==
    IF s = "" THEN 0
    ELSE 10 * ParseInt(SubSeq(s, 1, Len(s) - 1)) + DigitVal(SubSeq(s, Len(s), Len(s)))

-----------------------------------------------------------------------------
(* parse_time_with_regex *)

\* the alternatives of (minute|min|hour|hr), in the order the pattern tries them
TimeUnits == <<"minute", "min", "hour", "hr">>

\* the unit that (minute|min|hour|hr) matches at position i of s, "" when none does
UnitAt(s, i) ==
    IF \E k \in 1..Len(TimeUnits) : StartsAt(s, i, TimeUnits[k])
    THEN TimeUnits[CHOOSE k \in 1..Len(TimeUnits) :
                        /\ StartsAt(s, i, TimeUnits[k])
                        /\ \A j \in 1..(k - 1) : ~StartsAt(s, i, TimeUnits[j])]
    ELSE ""

\* r'in (\d+)\s*(minute|min|hour|hr)s?' matched at position i of s
RelativeAt(s, i) ==
    LET d == DigitsLen(s, i + 3)
        u == i + 3 + d + SpacesLen(s, i + 3 + d)
    IN  [ok |-> StartsAt(s, i, "in ") /\ d >= 1 /\ UnitAt(s, u) # "",
         amount |-> ParseInt(SubSeq(s, i + 3, i + 2 + d)),
         unit |-> UnitAt(s, u)]

\* re.search of the relative pattern: the leftmost match, ok = FALSE when there is none
RelativeSearch(s) ==
    IF \E i \in 1..Len(s) : RelativeAt(s, i).ok
    THEN RelativeAt(s, CHOOSE i \in 1..Len(s) :
                            /\ RelativeAt(s, i).ok
                            /\ \A j \in 1..(i - 1) : ~RelativeAt(s, j).ok)
    ELSE [ok |-> FALSE, amount |-> 0, unit |-> ""]

\* r'(\d{1,2})(?::(\d{2}))?\s*(am|pm)?' matched at position i of s:
\* one or two digits, an optional :MM, optional white space, an optional am or pm
ClockAt(s, i) ==
    LET h == IF IsDigit(Ch(s, i + 1)) THEN 2 ELSE 1
        hasMin == Ch(s, i + h) = ":" /\ IsDigit(Ch(s, i + h + 1)) /\ IsDigit(Ch(s, i + h + 2))
        m == i + h + (IF hasMin THEN 3 ELSE 0)
        p == m + SpacesLen(s, m)
    IN  [ok |-> IsDigit(Ch(s, i)),
         hour |-> IF IsDigit(Ch(s, i)) THEN ParseInt(SubSeq(s, i, i + h - 1)) ELSE 0,
         minute |-> IF hasMin THEN ParseInt(SubSeq(s, i + h + 1, i + h + 2)) ELSE 0,
         period |-> IF StartsAt(s, p, "am") THEN "am"
                    ELSE IF StartsAt(s, p, "pm") THEN "pm" ELSE ""]

NoClock == [ok |-> FALSE, hour |-> 0, minute |-> 0, period |-> ""]

\* re.search(r'at (\d{1,2})(?::(\d{2}))?\s*(am|pm)?', s)
AtSearch(s) ==
    IF \E i \in 1..Len(s) : StartsAt(s, i, "at ") /\ ClockAt(s, i + 3).ok
    THEN ClockAt(s, 3 + CHOOSE i \in 1..Len(s) :
                            /\ StartsAt(s, i, "at ") /\ ClockAt(s, i + 3).ok
                            /\ \A j \in 1..(i - 1) :
                                  ~(StartsAt(s, j, "at ") /\ ClockAt(s, j + 3).ok))
    ELSE NoClock

\* re.search(r'(\d{1,2})(?::(\d{2}))?\s*(am|pm)?', s)
ClockSearch(s) ==
    IF \E i \in 1..Len(s) : ClockAt(s, i).ok
    THEN ClockAt(s, CHOOSE i \in 1..Len(s) :
                        /\ ClockAt(s, i).ok
                        /\ \A j \in 1..(i - 1) : ~ClockAt(s, j).ok)
    ELSE NoClock

\* the hour after "if period == 'pm' and hour != 12: hour += 12" and
\* "if period == 'am' and hour == 12: hour = 0"
Hour24(c) ==
    IF c.period = "pm" /\ c.hour # 12 THEN c.hour + 12
    ELSE IF c.period = "am" /\ c.hour = 12 THEN 0
    ELSE c.hour

\* datetime.replace(hour=, minute=, second=0, microsecond=0) on the day of t;
\* a ValueError (ok = FALSE) for an hour outside 0..23 or a minute outside 0..59
ReplaceClock(t, hour, minute) ==
    [ok |-> hour \in 0..23 /\ minute \in 0..59,
     ts |-> (t - (t % Day)) + hour * Hour + minute * 60]

\* a clock time that stays on the day of now
SameDay(target, t) == target

\* "if target < now: target += timedelta(days=1)"
NextDayIfPassed(target, t) == IF target < t THEN target + Day ELSE target

\* 'hour' in unit, without "or unit == 'hr'"
IsHoursSpelled(unit) == Contains(unit, "hour")

\* 'hour' in unit or unit == 'hr'
IsHours(unit) == Contains(unit, "hour") \/ unit = "hr"

\* parse_time_with_regex(user_input) at clock t: [ok, ts], ok = FALSE when it raises
parse_time_with_regex(said, t) ==
    LET low == Lower(said)
        rel == RelativeSearch(low)
        at == AtSearch(low)
        tom == ClockSearch(low)
    IN  IF rel.ok
        THEN [ok |-> TRUE,
              ts |-> IF IsHours(rel.unit)
                     THEN t + rel.amount * Hour
                     ELSE t + rel.amount * 60]
        ELSE IF at.ok
        THEN LET target == ReplaceClock(t, Hour24(at), at.minute)
             IN  [ok |-> target.ok,
                  ts |-> NextDayIfPassed(target.ts, t)]
        ELSE IF Contains(low, "tomorrow") /\ tom.ok
        THEN ReplaceClock(t + Day, Hour24(tom), tom.minute)
        ELSE [ok |-> TRUE, ts |-> t + Hour]

-----------------------------------------------------------------------------
(* extract_task_with_regex *)

\* the words of (at|in|on|for|tomorrow|today|tonight)
TimeWords == <<"at", "in", "on", "for", "tomorrow", "today", "tonight">>

\* \b at position i of s: exactly one of the characters before and at i is a word character
WordBoundary(s, i) == IsWordChar(Ch(s, i - 1)) # IsWordChar(Ch(s, i))

\* r'\b(at|in|on|for|tomorrow|today|tonight)\s+\d+.*' matches at position i of s
TimeWordNumberAt(s, i) ==
    /\ WordBoundary(s, i)
    /\ \E k \in 1..Len(TimeWords) :
          LET e == i + Len(TimeWords[k])
          IN  /\ StartsAt(s, i, TimeWords[k])
              /\ SpacesLen(s, e) >= 1
              /\ IsDigit(Ch(s, e + SpacesLen(s, e)))

\* r'\b(at|in|on|for|tomorrow|today|tonight)\b.*' matches at position i of s
TimeWordAt(s, i) ==
    /\ WordBoundary(s, i)
    /\ \E k \in 1..Len(TimeWords) :
          /\ StartsAt(s, i, TimeWords[k])
          /\ WordBoundary(s, i + Len(TimeWords[k]))

\* re.sub(pattern + '.*', '', s): s cut at the leftmost match of the pattern
CutAtTimeWordNumber(s) ==
    IF \E i \in 1..Len(s) : TimeWordNumberAt(s, i)
    THEN SubSeq(s, 1, (CHOOSE i \in 1..Len(s) :
                          /\ TimeWordNumberAt(s, i)
                          /\ \A j \in 1..(i - 1) : ~TimeWordNumberAt(s, j)) - 1)
    ELSE s

CutAtTimeWord(s) ==
    IF \E i \in 1..Len(s) : TimeWordAt(s, i)
    THEN SubSeq(s, 1, (CHOOSE i \in 1..Len(s) :
                          /\ TimeWordAt(s, i)
                          /\ \A j \in 1..(i - 1) : ~TimeWordAt(s, j)) - 1)
    ELSE s

\* re.sub(r'^to\s+', '', s)
DropLeadingTo(s) ==
    IF StartsAt(s, 1, "to") /\ SpacesLen(s, 3) >= 1
    THEN From(s, 3 + SpacesLen(s, 3))
    ELSE s

extract_task_with_regex(said, trigger_used) ==
    LET t1 == Strip(Replace(Lower(said), trigger_used, ""))
        t2 == Strip(CutAtTimeWordNumber(t1))
        t3 == Strip(CutAtTimeWord(t2))
        t4 == Strip(DropLeadingTo(t3))
        t5 == IF Len(t4) < 5 THEN Strip(Replace(said, trigger_used, "")) ELSE t4
    IN  IF t5 # "" THEN t5 ELSE "reminder"

-----------------------------------------------------------------------------
(* The reminder ledger *)

\* strftime("%Y-%m-%d %H:%M") of clock t: the minute t lies in (seconds are dropped)
Readable(t) == t \div 60

\* datetime.strptime(s, "%Y-%m-%d %H:%M") as epoch seconds: the start of that minute
ParseReadable(m) == m * 60

\* the reminder add_reminder builds
NewReminder(n, task, time, recurring) ==
    [id |-> "rem_" \o Pad3(n), task |-> task, time |-> time, recurring |-> recurring,
     snoozed_until |-> None, triggered |-> "absent",
     status |-> "absent", archived_at |-> None]

EmptyLedger == [active |-> <<>>, archive |-> <<>>]

\* a retention test that also drops the entry archived exactly at the cutoff
FreshAfterCutoff(archived_at, t) ==
    ParseReadable(archived_at) > t - ARCHIVE_RETENTION_DAYS * Day

\* "datetime.strptime(r['archived_at'], ...) >= cutoff", the cutoff being
\* datetime.now() - timedelta(days=ARCHIVE_RETENTION_DAYS)
Fresh(archived_at, t) ==
    ParseReadable(archived_at) >= t - ARCHIVE_RETENTION_DAYS * Day

\* prune_archive(data) at clock t: [data, removed]
prune_archive(data, t) ==
    LET Keep(r) == Fresh(r.archived_at, t)
        kept == SelectSeq(data.archive, Keep)
    IN  [data |-> [data EXCEPT !.archive = kept],
         removed |-> Len(data.archive) - Len(kept)]

\* load_reminders() of the document f at clock t: [data, saved]; the pruned
\* document is written back when prune_archive removed something
load_reminders(f, t) ==
    LET p == prune_archive(f, t)
    IN  [data |-> p.data, saved |-> p.removed > 0]

\* list.remove(x): the list without its first element equal to x
RemoveFirst(s, x) ==
    IF \E i \in 1..Len(s) : s[i] = x
    THEN LET k == CHOOSE i \in 1..Len(s) : s[i] = x /\ \A j \in 1..(i - 1) : s[j] # x
         IN  SubSeq(s, 1, k - 1) \o SubSeq(s, k + 1, Len(s))
    ELSE s

\* an archive_reminder that marks the reminder but does not append it
archive_reminder_unrecorded(data, k, status, t) ==
    [data EXCEPT !.active[k].status = status, !.active[k].archived_at = Readable(t)]

\* archive_reminder(data, reminder, status) for the reminder at position k of
\* data.active: the reminder object itself gets status and archived_at (so the
\* object in active changes too) and is appended to the archive
archive_reminder(data, k, status, t) ==
    LET r == [data.active[k] EXCEPT !.status = status, !.archived_at = Readable(t)]
    IN  [active |-> [data.active EXCEPT ![k] = r],
         archive |-> Append(data.archive, r)]

\* a capacity test that never refuses
AtCapacityNever(n) == FALSE

\* a capacity test that lets one reminder too many in
AtCapacityOffByOne(n) == n > MAX_REMINDERS

\* "if len(data['active']) >= MAX_REMINDERS"
AtCapacity(n) == n >= MAX_REMINDERS

\* an ordinal that is the length of the list
OrdinalIsLength(n) == n

\* len(data['active']) + 1
Ordinal(n) == n + 1

\* add_reminder(task, time_str, user_input, recurring) on the document f at clock t:
\* [file, saved, raised, ret]
add_reminder(f, task, said, recurring, t) ==
    LET ld == load_reminders(f, t)
        data == ld.data
        n == Len(data.active)
        pt == parse_time_with_regex(said, t)
        reminder == NewReminder(Ordinal(n), task, pt.ts, recurring)
    IN  IF AtCapacity(n)
        THEN [file |-> data, saved |-> ld.saved, raised |-> FALSE,
              ret |-> [tag |-> "LIMIT_REACHED", count |-> n]]
        ELSE IF ~pt.ok
        THEN [file |-> data, saved |-> ld.saved, raised |-> TRUE,
              ret |-> [tag |-> "ValueError"]]
        ELSE [file |-> [data EXCEPT !.active = Append(@, reminder)],
              saved |-> TRUE, raised |-> FALSE,
              ret |-> [tag |-> "SUCCESS", id |-> reminder.id, readable |-> Readable(pt.ts)]]

\* task_keyword in r['task'], the case kept
TaskMatchesCase(task, task_keyword) == Contains(task, task_keyword)

\* task_keyword.lower() in r['task'].lower()
TaskMatches(task, task_keyword) == Contains(Lower(task), Lower(task_keyword))

\* delete_reminder(task_keyword): [file, saved, ret]
delete_reminder(f, task_keyword, t) ==
    LET data == load_reminders(f, t).data
        Keep(r) == ~TaskMatches(r.task, task_keyword)
        kept == SelectSeq(data.active, Keep)
    IN  [file |-> [data EXCEPT !.active = kept], saved |-> TRUE,
         ret |-> Len(data.active) - Len(kept)]

\* datetime.now() + timedelta(seconds=minutes)
SnoozeUntilSeconds(t, minutes) == t + minutes

\* int((datetime.now() + timedelta(minutes=minutes)).timestamp())
SnoozeUntil(t, minutes) == t + minutes * 60

\* snooze_reminder(reminder_id, minutes): [file, saved, ret]
snooze_reminder(f, reminder_id, minutes, t) ==
    LET ld == load_reminders(f, t)
        data == ld.data
    IN  IF \E i \in 1..Len(data.active) : data.active[i].id = reminder_id
        THEN LET k == CHOOSE i \in 1..Len(data.active) :
                         /\ data.active[i].id = reminder_id
                         /\ \A j \in 1..(i - 1) : data.active[j].id # reminder_id
             IN  [file |-> [data EXCEPT !.active[k].snoozed_until = SnoozeUntil(t, minutes),
                                        !.active[k].triggered = "False"],
                  saved |-> TRUE, ret |-> TRUE]
        ELSE [file |-> data, saved |-> ld.saved, ret |-> FALSE]

\* "if reminder.get('snoozed_until')": neither None nor 0
Truthy(v) == v # None /\ v # 0

RECURSIVE CheckLoop(_, _, _, _)
\* the body of "for reminder in data['active']" in check_reminders.  The loop reads
\* the list it removes from: i is the list iterator's index (from 0), which moves on
\* by one after every element whatever the body did to the list.
\* acc.fired: the reminders announced, as they were when announced
CheckLoop(data, i, t, acc) ==
    IF i >= Len(data.active) THEN [data |-> data, fired |-> acc]
    ELSE
      LET r == data.active[i + 1]
      IN  IF Truthy(r.snoozed_until) /\ t < r.snoozed_until
          THEN CheckLoop(data, i + 1, t, acc)
          ELSE
            LET r1 == IF Truthy(r.snoozed_until) THEN [r EXCEPT !.snoozed_until = None] ELSE r
                d1 == [data EXCEPT !.active[i + 1] = r1]
            IN  IF t >= r1.time
                THEN IF r1.recurring
                     THEN CheckLoop([d1 EXCEPT !.active[i + 1].time = @ + Day],
                                    i + 1, t, Append(acc, r1))
                     ELSE LET d2 == archive_reminder(d1, i + 1, "triggered", t)
                          IN  CheckLoop([d2 EXCEPT !.active = RemoveFirst(@, d2.active[i + 1])],
                                        i + 1, t, Append(acc, r1))
                ELSE CheckLoop(d1, i + 1, t, acc)

\* check_reminders() on the document f at clock t: [file, saved, fired];
\* the ledger is written only when triggered_any
check_reminders(f, t) ==
    LET ld == load_reminders(f, t)
        res == CheckLoop(ld.data, 0, t, <<>>)
    IN  IF res.fired # <<>>
        THEN [file |-> res.data, saved |-> TRUE, fired |-> res.fired]
        ELSE [file |-> ld.data, saved |-> ld.saved, fired |-> <<>>]

\* a recovery that moves a recurring reminder on by one day only
FastForwardOneDay(time, t) == time + Day

RECURSIVE FastForward(_, _)
\* "while reminder['time'] < now_ts: reminder['time'] += 86400"
FastForward(time, t) == IF time < t THEN FastForward(time + Day, t) ELSE time

RECURSIVE RecoverLoop(_, _, _, _, _)
\* the body of "for reminder in list(data['active'])" in recover_missed_reminders.
\* The loop reads a copy of the list: j is the position in the copy (from 1) and
\* removed the number of reminders already taken out of data['active'], so that the
\* j-th reminder of the copy is at position j - removed of data['active'].
\* acc: the reminders announced as missed
RecoverLoop(data, j, removed, t, acc) ==
    IF j - removed > Len(data.active) THEN [data |-> data, missed |-> acc]
    ELSE
      LET k == j - removed
          r == data.active[k]
      IN  IF r.time < t
          THEN IF r.recurring
               THEN RecoverLoop([data EXCEPT !.active[k].time = FastForward(@, t)],
                                j + 1, removed, t, Append(acc, r))
               ELSE LET d2 == archive_reminder(data, k, "missed", t)
                    IN  RecoverLoop([d2 EXCEPT !.active = RemoveFirst(@, d2.active[k])],
                                    j + 1, removed + 1, t, Append(acc, r))
          ELSE RecoverLoop(data, j + 1, removed, t, acc)

\* recover_missed_reminders() on the document f at clock t: [file, saved, missed]
recover_missed_reminders(f, t) ==
    LET ld == load_reminders(f, t)
        res == RecoverLoop(ld.data, 1, 0, t, <<>>)
    IN  IF res.missed # <<>>
        THEN [file |-> res.data, saved |-> TRUE, missed |-> res.missed]
        ELSE [file |-> ld.data, saved |-> ld.saved, missed |-> <<>>]

\* list_reminders() on the document f at clock t: [file, saved, ret], ret being
\* copies of the active reminders with a readable time
list_reminders(f, t) ==
    LET ld == load_reminders(f, t)
    IN  [file |-> ld.data, saved |-> ld.saved,
         ret |-> [i \in 1..Len(ld.data.active) |->
                     [ld.data.active[i] EXCEPT !.time = Readable(@)]]]

\* build_daily_summary_payload() on the document f at clock t: [file, saved, ret],
\* ret being the tasks archived today as triggered and as missed
build_daily_summary_payload(f, t) ==
    LET ld == load_reminders(f, t)
        Today(r) == Readable(r.archived_at * 60) \div (24 * 60) = Readable(t) \div (24 * 60)
        Completed(r) == Today(r) /\ r.status = "triggered"
        Missed(r) == Today(r) /\ r.status = "missed"
    IN  [file |-> ld.data, saved |-> ld.saved,
         ret |-> [completed |-> SelectSeq(ld.data.archive, Completed),
                  missed |-> SelectSeq(ld.data.archive, Missed)]]

\* len(data["active"]) alone
WipedCountActive(data) == Len(data.active)

\* len(data["active"]) + len(data["archive"])
WipedCount(data) == Len(data.active) + Len(data.archive)

\* wipe_reminders(mode): [file, saved, ret]
wipe_reminders(f, mode, t) ==
    LET ld == load_reminders(f, t)
        data == ld.data
    IN  CASE mode = "active" ->
               [file |-> [data EXCEPT !.active = <<>>], saved |-> TRUE,
                ret |-> [tag |-> "ACTIVE", count |-> Len(data.active)]]
          [] mode = "archive" ->
               [file |-> [data EXCEPT !.archive = <<>>], saved |-> TRUE,
                ret |-> [tag |-> "ARCHIVE", count |-> Len(data.archive)]]
          [] mode = "all" ->
               [file |-> EmptyLedger, saved |-> TRUE,
                ret |-> [tag |-> "ALL", count |-> WipedCount(data)]]
          [] OTHER ->
               [file |-> data, saved |-> ld.saved, ret |-> [tag |-> "INVALID", count |-> 0]]

-----------------------------------------------------------------------------
(* The trigger chain of run_patch *)

ExitWords == <<"exit", "shut down", "power down">>

ResetWords == <<"reset memory", "forget everything", "clear history">>

SleepWords == <<"temporarily sleep", "patch sleep", "pause system">>

add_triggers ==
    <<"log reminder", "schedule task", "set alarm", "remind me", "create reminder">>

list_triggers ==
    <<"reminder status", "what's on my agenda", "mission log", "list reminders",
      "show reminders", "what's on my schedule">>

delete_triggers == <<"cancel reminder", "delete task", "abort mission", "remove reminder">>

\* the wipe_triggers dict, in insertion order: <<trigger, mode>>
wipe_triggers ==
    <<<<"wipe active reminders", "active">>,
      <<"wipe reminder archive", "archive">>,
      <<"wipe all reminders", "all">>>>

summary_triggers ==
    <<"daily summary", "status report", "mission summary", "how did i do today",
      "today's summary">>

weather_triggers ==
    <<"weather scan", "environmental report", "atmospheric conditions", "weather in",
      "weather for">>

search_triggers ==
    <<"search engine active", "searching enable", "search for", "look up", "open google">>

\* any(w in low for w in words)
AnyIn(low, words) == \E i \in 1..Len(words) : Contains(low, words[i])

\* the first trigger of the list that is in low ("" when none is): the
\* "for trigger in ...: if trigger in low: ... break" loops
FirstIn(low, triggers) ==
    IF AnyIn(low, triggers)
    THEN triggers[CHOOSE i \in 1..Len(triggers) :
                     /\ Contains(low, triggers[i])
                     /\ \A j \in 1..(i - 1) : ~Contains(low, triggers[j])]
    ELSE ""

\* one step of a turn: the group whose handler runs and what it is given
Step(h, arg) == [h |-> h, arg |-> arg]

\* keyword = user_input_low.replace(trigger, "").strip() for the first delete
\* trigger in the input; "" (keyword stays None) when there is none
DeleteKeyword(low) ==
    LET trigger == FirstIn(low, delete_triggers)
    IN  IF trigger = "" THEN "" ELSE Strip(Replace(low, trigger, ""))

RECURSIVE StripWords(_, _, _)
\* "for word in [...]: city_name = city_name.replace(word, '').strip()"
StripWords(s, words, i) ==
    IF i > Len(words) THEN s
    ELSE StripWords(Strip(Replace(s, words[i], "")), words, i + 1)

\* city_name for the first weather trigger in the input
CityName(low) ==
    LET trigger == FirstIn(low, weather_triggers)
    IN  IF trigger = "" THEN ""
        ELSE StripWords(Strip(SplitLast(low, trigger)), <<"for", "in", "of", "at">>, 1)

RECURSIVE SearchQuery(_, _)
\* query_for_web after the search loop, which has no break: every trigger still in
\* the query is taken out of it in turn
SearchQuery(q, i) ==
    IF i > Len(search_triggers) THEN q
    ELSE IF Contains(q, search_triggers[i])
         THEN SearchQuery(Strip(Replace(q, search_triggers[i], "")), i + 1)
         ELSE SearchQuery(q, i + 1)

\* the "for trigger, mode in wipe_triggers.items()" loop.  Its "continue"
\* statements continue this loop, not the turn: an input with 'wipe all reminders'
\* asks for confirmation in each of the three iterations, any other input runs the
\* wipe of every trigger it contains, and the turn goes on below the loop
WipeSteps(low) ==
    IF Contains(low, "wipe all reminders")
    THEN [i \in 1..Len(wipe_triggers) |-> Step("wipe", "confirm")]
    ELSE LET In(tm) == Contains(low, tm[1])
             found == SelectSeq(wipe_triggers, In)
         IN  [i \in 1..Len(found) |-> Step("wipe", found[i][2])]

\* the turn from the summary triggers down
LowerSteps(low) ==
    IF AnyIn(low, summary_triggers) THEN <<Step("summary", "")>>
    ELSE IF AnyIn(low, weather_triggers) /\ CityName(low) # ""
         THEN <<Step("weather", CityName(low))>>
    ELSE IF AnyIn(low, search_triggers)
         THEN <<Step("search", SearchQuery(low, 1)), Step("chat", "")>>
    ELSE <<Step("chat", "")>>

\* a mode switch that always goes to Chat
ModeAlwaysChat(low) == "Chat"

\* interaction_mode = "Chat" if "chat" in user_input.lower() else "Voice"
ModeFor(low) == IF Contains(low, "chat") THEN "Chat" ELSE "Voice"

\* the handlers an awake turn with the non-empty input u runs, in order
Dispatch(u) ==
    LET low == Lower(u)
    IN  IF Contains(low, "switch to")
        THEN <<Step("mode", ModeFor(low))>>
        ELSE IF AnyIn(low, ExitWords) THEN <<Step("exit", "")>>
        ELSE IF Contains(low, "clean your system") THEN <<Step("clean", "")>>
        ELSE IF Contains(low, "total reset") THEN <<Step("total_reset", "")>>
        ELSE IF AnyIn(low, ResetWords) THEN <<Step("reset_memory", "")>>
        ELSE IF AnyIn(low, SleepWords) THEN <<Step("sleep", "")>>
        ELSE IF AnyIn(low, add_triggers) THEN <<Step("add", FirstIn(low, add_triggers))>>
        ELSE IF AnyIn(low, list_triggers) THEN <<Step("list", "")>>
        ELSE IF DeleteKeyword(low) # "" THEN <<Step("delete", DeleteKeyword(low))>>
        ELSE WipeSteps(low) \o LowerSteps(low)

-----------------------------------------------------------------------------
(* The ledger operations, called directly *)

\* what the user says to add a reminder
AddInputs == <<"remind me to water plants in 30 minutes", "Remind me to call Mom">>

\* the add calls made: the user's words and the recurring flag
AddCalls == {<<AddInputs[1], FALSE>>, <<AddInputs[2], TRUE>>}

\* keywords given to delete
DeleteKeywords == {"Water"}

\* ids given to snooze
SnoozeIds == {"rem_001"}

\* scopes given to wipe
WipeModes == {"active", "archive", "all", "everything"}

\* by how much the clock advances in one step
TickSteps == {Hour, 15 * Day}

\* the outcome of a ledger operation on the document f: before is the document as
\* it was stored, pre the ledger that the operation loaded from it
Outcome(op, arg, f, res, fired) ==
    [op |-> op, arg |-> arg, at |-> now, before |-> f,
     pre |-> load_reminders(f, now).data,
     ret |-> res.ret, saved |-> res.saved, fired |-> fired]

NoOutcome ==
    [op |-> "none", arg |-> "", at |-> 0, before |-> EmptyLedger, pre |-> EmptyLedger,
     ret |-> [tag |-> "NONE"], saved |-> FALSE, fired |-> <<>>]

\* the k-th of the add calls that filled the ledger, made one hour before T0:
\* the user's words alternate and every third reminder is recurring
FilledReminder(k) ==
    LET u == AddInputs[(k % 2) + 1]
    IN  NewReminder(k, extract_task_with_regex(u, "remind me"),
                    parse_time_with_regex(u, T0 - Hour).ts, k % 3 = 0)

\* the ledger after k add calls on an empty ledger
Filled(k) == [active |-> [i \in 1..k |-> FilledReminder(i)], archive |-> <<>>]

\* the ledgers the operation-level specification starts from
StartLedgers == {Filled(k) : k \in {0, 3, MAX_REMINDERS - 1, MAX_REMINDERS}}

\* one more step of the operation-level specification
Counted == ops < MaxOps /\ ops' = ops + 1 /\ UNCHANGED progVars

\* the Scheduler's add(task, raw_input, recurring), the task being what the
\* Router extracts from the user's words
Add(u, recurring) ==
    LET task == extract_task_with_regex(u, "remind me")
        res == add_reminder(file, task, u, recurring, now)
    IN  /\ file' = res.file
        /\ last' = Outcome("add", task, file, res, <<>>)
        /\ nSuccess' = IF res.ret.tag = "SUCCESS" THEN nSuccess + 1 ELSE nSuccess
        /\ UNCHANGED <<now, ticks>>

Delete(keyword) ==
    LET res == delete_reminder(file, keyword, now)
    IN  /\ file' = res.file
        /\ last' = Outcome("delete", keyword, file,
                            [ret |-> [tag |-> "DELETED", count |-> res.ret],
                             saved |-> res.saved], <<>>)
        /\ UNCHANGED <<now, ticks, nSuccess>>

Snooze(id) ==
    LET res == snooze_reminder(file, id, 10, now)
    IN  /\ file' = res.file
        /\ last' = Outcome("snooze", id, file,
                            [ret |-> [tag |-> IF res.ret THEN "SNOOZED" ELSE "NOT_FOUND"],
                             saved |-> res.saved], <<>>)
        /\ UNCHANGED <<now, ticks, nSuccess>>

Wipe(mode) ==
    LET res == wipe_reminders(file, mode, now)
    IN  /\ file' = res.file
        /\ last' = Outcome("wipe", mode, file, res, <<>>)
        /\ UNCHANGED <<now, ticks, nSuccess>>

CheckDue ==
    LET res == check_reminders(file, now)
    IN  /\ file' = res.file
        /\ last' = Outcome("check", "", file, [ret |-> [tag |-> "NONE"], saved |-> res.saved],
                            res.fired)
        /\ UNCHANGED <<now, ticks, nSuccess>>

Recover ==
    LET res == recover_missed_reminders(file, now)
    IN  /\ file' = res.file
        /\ last' = Outcome("recover", "", file, [ret |-> [tag |-> "NONE"], saved |-> res.saved],
                            res.missed)
        /\ UNCHANGED <<now, ticks, nSuccess>>

\* wall-clock time passes between two operations
Elapse(d) ==
    /\ now' = now + d
    /\ UNCHANGED <<file, last, nSuccess, ticks>>

ApiAdd == \E c \in AddCalls : Counted /\ Add(c[1], c[2])

ApiDelete == \E k \in DeleteKeywords : Counted /\ Delete(k)

ApiSnooze == \E id \in SnoozeIds : Counted /\ Snooze(id)

ApiWipe == \E m \in WipeModes : Counted /\ Wipe(m)

ApiCheckDue == Counted /\ CheckDue

ApiRecover == Counted /\ Recover

ApiTick == \E d \in TickSteps : Counted /\ Elapse(d)

\* a persona prompt, a user message and a reply of the conversation
Message(role, content) == [role |-> role, content |-> content]

\* the system persona prompt that load_memory and reset_memory start from
Persona == Message("system", "NAME: Patch.")

\* no safe_ollama_chat in the turn so far
NoChat == [result |-> "none", answers |-> <<>>, gpu |-> <<>>]

\* no document: the task is not inside a ledger operation
NoDoc == [none |-> TRUE]

\* the program before run_patch has done anything: Voice mode, awake, no
\* stored conversation, the main task running and reminder_loop not created
ProgStart ==
    /\ interaction_mode = "Voice"
    /\ is_sleeping = FALSE
    /\ fg = "start"
    /\ bg = "none"
    /\ run = "fg"
    /\ held = [fg |-> NoDoc, bg |-> NoDoc]
    /\ todo = <<>>
    /\ user_input = ""
    /\ heard = ""
    /\ handled = <<>>
    /\ turns = 0
    /\ messages = <<Persona>>
    /\ memfile = <<>>
    /\ recognizer = "Recognizer"
    /\ recovered = <<>>
    /\ polled = FALSE
    /\ called = <<>>
    /\ ollama = NoChat

ApiInit ==
    /\ ProgStart
    /\ file \in StartLedgers
    /\ now = T0
    /\ last = NoOutcome
    /\ nSuccess = 0
    /\ ticks = 0
    /\ ops = 0

ApiNext ==
    \/ ApiAdd
    \/ ApiDelete
    \/ ApiSnooze
    \/ ApiWipe
    \/ ApiCheckDue
    \/ ApiRecover
    \/ ApiTick

\* the ledger operations in any order, from an empty, a small and a full ledger
ApiSpec == ApiInit /\ [][ApiNext]_vars

-----------------------------------------------------------------------------
(* Adding only *)

AddOnly == Add(AddInputs[2], FALSE) /\ UNCHANGED <<ops, progVars>>

\* an hour passes
AddTick ==
    /\ ticks < MaxTicks
    /\ ticks' = ticks + 1
    /\ now' = now + Hour
    /\ UNCHANGED <<file, last, nSuccess, ops, progVars>>

AddInit ==
    /\ ProgStart
    /\ file = EmptyLedger
    /\ now = T0
    /\ last = NoOutcome
    /\ nSuccess = 0
    /\ ticks = 0
    /\ ops = 0

AddNext == AddOnly \/ AddTick

\* add calls and nothing else, from an empty ledger
AddSpec == AddInit /\ [][AddNext]_vars

-----------------------------------------------------------------------------
(* The program: run_patch and reminder_loop on one event loop *)

\* what the user says or types in a turn ("" is silence or unrecognised speech)
Utterances ==
    {"", "switch to chat", "switch to voice", "patch sleep", "patch wake up", "exit",
     "remind me to list reminders", "show reminders", "cancel reminder water",
     "cancel reminder",
     "wipe active reminders then status report", "wipe all reminders",
     "look up the weather in", "weather in paris", "reset memory", "hello patch"}

\* what the user types at the CONFIRM prompt
Confirmations == {"Confirm", "no"}

\* how the calls of ollama.chat end that safe_ollama_chat makes: the first with a
\* reply, with an error that is no resource failure, or with a resource failure
\* (cuda, allocate, vram), after which the one retry replies or raises
ChatReplies == {"ok", "error", "cuda then ok", "cuda then error"}

\* what the calls of ollama.chat give, in order, for each of these: the reply, or
\* the text of the exception
Answers(outcome) ==
    CASE outcome = "ok" -> <<"reply">>
      [] outcome = "error" -> <<"Connection refused", "reply">>
      [] outcome = "cuda then ok" -> <<"CUDA error: out of memory", "reply">>
      [] outcome = "cuda then error" -> <<"CUDA error: out of memory", "unable to allocate buffer">>

\* a test that takes every error for a resource failure
IsResourceFailureAlways(err) == TRUE

\* "cuda" in err or "allocate" in err or "vram" in err
IsResourceFailure(err) ==
    Contains(err, "cuda") \/ Contains(err, "allocate") \/ Contains(err, "vram")

\* safe_ollama_chat(model, messages) when ollama.chat answers as given: the result,
\* the answers of the calls made and OLLAMA_NUM_GPU at each of them ("proactive":
\* what should_use_gpu_for_ollama decided; "0": forced off)
Chat(answers) ==
    IF answers[1] = "reply"
    THEN [result |-> "reply", answers |-> <<answers[1]>>, gpu |-> <<"proactive">>]
    ELSE IF IsResourceFailure(Lower(answers[1]))
    THEN [result |-> IF answers[2] = "reply" THEN "reply" ELSE "raised by the retry",
          answers |-> <<answers[1], answers[2]>>, gpu |-> <<"proactive", "0">>]
    ELSE [result |-> "raised", answers |-> <<answers[1]>>, gpu |-> <<"proactive">>]

\* safe_ollama_chat: a reply, the first error raised again, or the error of the
\* retry, which nothing catches
safe_ollama_chat(outcome) == Chat(Answers(outcome)).result

\* the chat backend answered
Replied(outcome) == safe_ollama_chat(outcome) = "reply"

\* how run_patch ends when safe_ollama_chat raises: "failed" after a resource
\* failure and a failed retry, "crashed" otherwise
Failure(outcome) ==
    IF safe_ollama_chat(outcome) = "raised by the retry" THEN "failed" ELSE "crashed"

\* run_patch is over: it left its loop by break, or an exception ended it
Stopped == {"done", "failed", "crashed"}

\* a wake test that every input passes
WakesOnAnyInput(low) == TRUE

\* "patch wake up" in user_input_low
Wakes(low) == Contains(low, "patch wake up")

\* an exit handler without its break
BreaksNever(h) == FALSE

\* the handler that leaves the loop by "break"
Breaks(h) == h = "exit"

\* the ledgers the program finds at startup
BootLedgers == {Filled(0), Filled(3)}

\* the handlers of every utterance, as the trigger chain picks them
Plan == [u \in Utterances |-> Dispatch(u)]

\* a point where everything suspends the running task
SuspendsEverywhere(point) == TRUE

\* a point set in which check_reminders gives way between its load and its save
SuspendsInCheck(point) == point \in {"async_input", "sleep", "check_reminders"}

\* whether the running task is suspended at a point of the code, so that the event
\* loop can run the other task: only "await loop.run_in_executor(...)" in
\* async_input and "await asyncio.sleep(1)" suspend; asyncio.create_task only
\* schedules, check_reminders holds no await, get_weather and search_web return
\* without ever suspending, and listen, input and speak block the thread
Suspends(point) == point \in {"async_input", "sleep"}

\* the event loop after the task self passed a point
After(self, point) == IF Suspends(point) THEN "idle" ELSE self

\* the handlers that work on the ledger
LedgerOps == {"recover", "add", "list", "delete", "wipe", "summary"}

\* messages[:], the whole conversation
LastAll(m) == m

\* messages[-12:]
Last12(m) == SubSeq(m, IF Len(m) > 12 THEN Len(m) - 11 ELSE 1, Len(m))

\* what a handler gets from its ledger call res: [file, saved, raised, ret, fired]
AsResult(h, res) ==
    [file |-> res.file, saved |-> res.saved,
     raised |-> IF h = "add" THEN res.raised ELSE FALSE,
     ret |-> CASE h = "recover" -> [tag |-> "NONE"]
               [] h \in {"add", "wipe"} -> res.ret
               [] h = "list" -> [tag |-> "LIST", count |-> Len(res.ret)]
               [] h = "delete" -> [tag |-> "DELETED", count |-> res.ret]
               [] h = "summary" ->
                    [tag |-> "SUMMARY",
                     count |-> Len(res.ret.completed) + Len(res.ret.missed)],
     fired |-> IF h = "recover" THEN res.missed ELSE <<>>]

\* the ledger call of a handler step on the loaded document doc, for the input u
\* at clock t
LedgerCall(step, doc, u, t) ==
    AsResult(step.h,
        CASE step.h = "recover" -> recover_missed_reminders(doc, t)
          [] step.h = "add" ->
               add_reminder(doc, extract_task_with_regex(u, step.arg), u, FALSE, t)
          [] step.h = "list" -> list_reminders(doc, t)
          [] step.h = "delete" -> delete_reminder(doc, step.arg, t)
          [] step.h = "wipe" -> wipe_reminders(doc, step.arg, t)
          [] step.h = "summary" -> build_daily_summary_payload(doc, t))

\* run_patch ends, by "break" or by an exception: asyncio.run cancels reminder_loop
Ends(how) ==
    /\ fg' = how
    /\ bg' = "none"
    /\ run' = "idle"
    /\ todo' = <<>>
    /\ held' = [fg |-> NoDoc, bg |-> NoDoc]

\* the turn goes on with its next handler step, or the loop with the next input
Advance ==
    /\ todo' = Tail(todo)
    /\ fg' = IF Tail(todo) = <<>> THEN "input" ELSE "turn"

\* asyncio.create_task(reminder_loop()), with recover_missed_reminders() next
Boot ==
    /\ fg = "start"
    /\ run # "bg"
    /\ bg' = "ready"
    /\ fg' = "turn"
    /\ todo' = <<Step("recover", "")>>
    /\ run' = After("fg", "create_task")
    /\ UNCHANGED <<file, now, last, nSuccess, ticks, ops, interaction_mode, is_sleeping,
                   held, user_input, heard, handled, turns, messages, memfile,
                   recognizer, recovered, polled, called, ollama>>

\* the foreground loads the ledger for its next handler step; load_reminders
\* writes the document back at once when pruning removed something
FgLoad ==
    /\ fg = "turn"
    /\ run # "bg"
    /\ todo # <<>>
    /\ Head(todo).h \in LedgerOps
    /\ Head(todo).arg # "confirm"
    /\ held.fg = NoDoc
    /\ LET ld == load_reminders(file, now)
       IN  file' = IF ld.saved THEN ld.data ELSE file
    /\ held' = [held EXCEPT !.fg = file]
    /\ handled' = IF Head(todo).h = "recover" THEN handled ELSE Append(handled, Head(todo).h)
    /\ run' = "fg"
    /\ UNCHANGED <<now, last, nSuccess, ticks, ops, interaction_mode, is_sleeping, fg, bg,
                   todo, user_input, heard, turns, messages, memfile, recognizer,
                   recovered, polled, called, ollama>>

\* what the end of a ledger call with the result res does to the ledger, to the
\* global r (the list loop rebinds it to a reminder) and to run_patch (add_reminder
\* may have raised; the summary asks the chat backend for its wording)
Completes(step, res, reply) ==
    /\ file' = IF res.saved THEN res.file ELSE file
    /\ last' = [op |-> step.h, arg |-> step.arg, at |-> now, before |-> file,
                pre |-> load_reminders(held.fg, now).data, ret |-> res.ret,
                saved |-> res.saved, fired |-> res.fired]
    /\ nSuccess' = IF res.ret.tag = "SUCCESS" THEN nSuccess + 1 ELSE nSuccess
    /\ recovered' = IF step.h = "recover" THEN Append(recovered, now) ELSE recovered
    /\ recognizer' = IF step.h = "list" /\ res.ret.count > 0
                     THEN "reminder" ELSE recognizer
    /\ IF res.raised \/ (step.h = "summary" /\ ~Replied(reply))
       THEN Ends(IF res.raised THEN "crashed" ELSE Failure(reply))
       ELSE /\ Advance
            /\ held' = [held EXCEPT !.fg = NoDoc]
            /\ run' = "fg"
            /\ bg' = bg

\* the foreground finishes the ledger call on the document it loaded and saves
FgComplete(reply) ==
    /\ fg = "turn"
    /\ run # "bg"
    /\ held.fg # NoDoc
    /\ Completes(Head(todo), LedgerCall(Head(todo), held.fg, user_input, now), reply)
    /\ called' = Append(called, Head(todo))
    /\ ollama' = IF Head(todo).h = "summary" THEN Chat(Answers(reply)) ELSE ollama
    /\ UNCHANGED <<now, ticks, ops, interaction_mode, is_sleeping, user_input, heard,
                   handled, turns, messages, memfile, polled>>

\* the conversation after a turn of the chat backend on the prompt
Said(prompt) == messages \o <<Message("user", prompt), Message("assistant", "reply")>>

\* a handler step that does not touch the ledger
FgStep(reply) ==
    /\ fg = "turn"
    /\ run # "bg"
    /\ todo # <<>>
    /\ Head(todo).h \notin LedgerOps
    /\ LET step == Head(todo)
           chats == step.h \in {"weather", "chat"}
           prompt == IF step.h = "weather" THEN "Atmospheric scan results: " \o step.arg
                     ELSE user_input
       IN  /\ handled' = Append(handled, step.h)
           /\ interaction_mode' = IF step.h = "mode" THEN step.arg ELSE interaction_mode
           /\ is_sleeping' = IF step.h = "sleep" THEN TRUE ELSE is_sleeping
           /\ user_input' = IF step.h = "search"
                            THEN "I found this on the web for '" \o step.arg \o "'"
                            ELSE user_input
           /\ messages' = IF step.h \in {"total_reset", "reset_memory"} THEN <<Persona>>
                          ELSE IF chats /\ Replied(reply) THEN Said(prompt)
                          ELSE IF chats THEN Append(messages, Message("user", prompt))
                          ELSE messages
           /\ memfile' = IF step.h \in {"total_reset", "reset_memory"} \/ (chats /\ Replied(reply))
                         THEN Last12(messages') ELSE memfile
           /\ ollama' = IF chats THEN Chat(Answers(reply)) ELSE ollama
           /\ IF Breaks(step.h) THEN Ends("done")
              ELSE IF chats /\ ~Replied(reply) THEN Ends(Failure(reply))
              ELSE /\ Advance
                   /\ run' = IF step.h = "weather" THEN After("fg", "get_weather")
                             ELSE IF step.h = "search" THEN After("fg", "search_web")
                             ELSE "fg"
                   /\ UNCHANGED <<bg, held>>
    /\ UNCHANGED <<file, now, last, nSuccess, ticks, ops, heard, turns, recognizer,
                   recovered, polled, called>>

\* input("CONFIRM: ") in an iteration of the wipe loop for 'wipe all reminders':
\* a blocking read; "confirm" in any case wipes everything
Confirm(confirmation) ==
    /\ fg = "turn"
    /\ run # "bg"
    /\ todo # <<>>
    /\ Head(todo) = Step("wipe", "confirm")
    /\ IF Lower(confirmation) = "confirm"
       THEN /\ todo' = <<Step("wipe", "all")>> \o Tail(todo)
            /\ UNCHANGED <<fg, handled>>
       ELSE /\ Advance
            /\ handled' = Append(handled, "wipe")
    /\ called' = Append(called, Step("confirm", Lower(confirmation)))
    /\ run' = "fg"
    /\ UNCHANGED <<file, now, last, nSuccess, ticks, ops, interaction_mode, is_sleeping,
                   bg, held, user_input, heard, turns, messages, memfile, recognizer,
                   recovered, polled, ollama>>

\* the loop body from "if not user_input" down to the trigger chain, for the input u
Take(u) ==
    /\ turns' = turns + 1
    /\ user_input' = u
    /\ heard' = u
    /\ handled' = <<>>
    /\ called' = <<>>
    /\ ollama' = NoChat
    /\ IF u = "" THEN fg' = "input" /\ UNCHANGED <<todo, is_sleeping>>
       ELSE IF is_sleeping
       THEN /\ is_sleeping' = ~Wakes(Lower(u))
            /\ fg' = "input"
            /\ UNCHANGED todo
       ELSE /\ todo' = Plan[u]
            /\ fg' = "turn"
            /\ UNCHANGED is_sleeping

\* Voice mode: r.listen and r.recognize_google block until speech, a timeout or a
\* recognition error; the task does not give way
Listen(u) ==
    /\ fg = "input"
    /\ interaction_mode = "Voice"
    /\ run # "bg"
    /\ recognizer = "Recognizer"
    /\ turns < MaxTurns
    /\ Take(u)
    /\ run' = "fg"
    /\ UNCHANGED <<file, now, last, nSuccess, ticks, ops, interaction_mode, bg, held,
                   messages, memfile, recognizer, recovered, polled>>

\* Voice mode after the list loop rebound r: r.adjust_for_ambient_noise raises
\* outside the try
ListenFails ==
    /\ fg = "input"
    /\ interaction_mode = "Voice"
    /\ run # "bg"
    /\ recognizer # "Recognizer"
    /\ Ends("crashed")
    /\ UNCHANGED <<file, now, last, nSuccess, ticks, ops, interaction_mode, is_sleeping,
                   user_input, heard, handled, turns, messages, memfile, recognizer,
                   recovered, polled, called, ollama>>

\* Chat mode: "await async_input(...)" hands input() to a thread and suspends
Prompt ==
    /\ fg = "input"
    /\ interaction_mode = "Chat"
    /\ run # "bg"
    /\ fg' = "awaiting"
    /\ run' = After("fg", "async_input")
    /\ UNCHANGED <<file, now, last, nSuccess, ticks, ops, interaction_mode, is_sleeping,
                   bg, held, todo, user_input, heard, handled, turns, messages, memfile,
                   recognizer, recovered, polled, called, ollama>>

\* Chat mode: the typed line is there and the event loop resumes run_patch
Type(u) ==
    /\ fg = "awaiting"
    /\ run # "bg"
    /\ turns < MaxTurns
    /\ Take(u)
    /\ run' = "fg"
    /\ UNCHANGED <<file, now, last, nSuccess, ticks, ops, interaction_mode, bg, held,
                   messages, memfile, recognizer, recovered, polled>>

\* reminder_loop enters check_reminders, which loads the ledger
BgLoad ==
    /\ bg = "ready"
    /\ run # "fg"
    /\ held.bg = NoDoc
    /\ LET ld == load_reminders(file, now)
       IN  file' = IF ld.saved THEN ld.data ELSE file
    /\ held' = [held EXCEPT !.bg = file]
    /\ bg' = "loaded"
    /\ polled' = TRUE
    /\ run' = After("bg", "check_reminders")
    /\ UNCHANGED <<now, last, nSuccess, ticks, ops, interaction_mode, is_sleeping, fg,
                   todo, user_input, heard, handled, turns, messages, memfile,
                   recognizer, recovered, called, ollama>>

\* check_reminders fires what is due in the document it loaded and saves; then
\* reminder_loop sleeps for a second
BgCheck ==
    /\ bg = "loaded"
    /\ run # "fg"
    /\ LET res == check_reminders(held.bg, now)
       IN  /\ file' = IF res.saved THEN res.file ELSE file
           /\ last' = [op |-> "check", arg |-> "", at |-> now, before |-> file,
                       pre |-> load_reminders(held.bg, now).data,
                       ret |-> [tag |-> "NONE"], saved |-> res.saved,
                       fired |-> res.fired]
    /\ held' = [held EXCEPT !.bg = NoDoc]
    /\ bg' = IF Suspends("sleep") THEN "sleeping" ELSE "ready"
    /\ run' = After("bg", "sleep")
    /\ UNCHANGED <<now, nSuccess, ticks, ops, interaction_mode, is_sleeping, fg, todo,
                   user_input, heard, handled, turns, messages, memfile, recognizer,
                   recovered, polled, called, ollama>>

\* the timer of asyncio.sleep(1) expires
Wake ==
    /\ bg = "sleeping"
    /\ bg' = "ready"
    /\ UNCHANGED <<file, now, last, nSuccess, ticks, ops, interaction_mode, is_sleeping,
                   fg, run, held, todo, user_input, heard, handled, turns, messages,
                   memfile, recognizer, recovered, polled, called, ollama>>

\* wall-clock time passes; a ledger operation in progress is over before it does
Tick(d) ==
    /\ ticks < MaxTicks
    /\ held = [fg |-> NoDoc, bg |-> NoDoc]
    /\ fg \notin Stopped
    /\ ticks' = ticks + 1
    /\ now' = now + d
    /\ UNCHANGED <<file, last, nSuccess, ops, progVars>>

FgFinish == \E reply \in ChatReplies : FgComplete(reply)

FgHandle == \E reply \in ChatReplies : FgStep(reply)

FgConfirm == \E c \in Confirmations : Confirm(c)

FgListen == \E u \in Utterances : Listen(u)

FgType == \E u \in Utterances : Type(u)

Elapsed == \E d \in TickSteps : Tick(d)

Init ==
    /\ ProgStart
    /\ file \in BootLedgers
    /\ now = T0
    /\ last = NoOutcome
    /\ nSuccess = 0
    /\ ticks = 0
    /\ ops = 0

Next ==
    \/ Boot
    \/ FgLoad
    \/ FgFinish
    \/ FgHandle
    \/ FgConfirm
    \/ FgListen
    \/ ListenFails
    \/ Prompt
    \/ FgType
    \/ BgLoad
    \/ BgCheck
    \/ Wake
    \/ Elapsed

\* the program from its start
Spec == Init /\ [][Next]_vars

\* run_patch comes out of the ledger call it is in: the FgComplete steps
FgCallEnds ==
    /\ fg = "turn"
    /\ run # "bg"
    /\ held.fg # NoDoc
    /\ held' = [held EXCEPT !.fg = NoDoc]

\* reminder_loop comes out of check_reminders: the BgCheck steps
BgCallEnds ==
    /\ bg = "loaded"
    /\ run # "fg"
    /\ bg' \in {"sleeping", "ready"}

\* the other steps run_patch takes by itself, without the user
FgRuns == Boot \/ FgLoad \/ FgHandle \/ Prompt

\* the other steps of reminder_loop
BgRuns == BgLoad \/ Wake

\* code that is running goes on, the event loop runs a task that is ready and
\* timers expire; the user is free to stay silent
Fairness ==
    /\ WF_vars(FgRuns)
    /\ WF_held(FgCallEnds)
    /\ WF_vars(BgRuns)
    /\ WF_bg(BgCallEnds)

FairSpec == Spec /\ Fairness

-----------------------------------------------------------------------------
(* Properties of checkDue and recoverMissed *)

\* not snoozed at clock t: snoozed_until unset or not after t
Eligible(r, t) == ~Truthy(r.snoozed_until) \/ r.snoozed_until <= t

\* how check_reminders sees a reminder it announces: its snooze is cleared
Announced(r) == [r EXCEPT !.snoozed_until = None]

\* the reminders of a ledger that are due at clock t, in ledger order
DueReminders(data, t) ==
    LET Due(r) == Eligible(r, t) /\ r.time <= t
        due == SelectSeq(data.active, Due)
    IN  [i \in 1..Len(due) |-> Announced(due[i])]

\* C1: one check_reminders call announces every reminder that was in the active
\* list when the call began, is not snoozed and has time <= now: each of them,
\* once, in ledger order, whatever the order of the list
C1_EveryDueReminderFires ==
    last.op = "check" => last.fired = DueReminders(last.pre, last.at)

\* what identifies a reminder across a firing: its time and snooze may change
Key(r) == <<r.id, r.task, r.recurring>>

\* how many reminders of the sequence s have key k
CountKey(s, k) == Cardinality({i \in 1..Len(s) : Key(s[i]) = k})

\* how many elements of the sequence s equal x
Count(s, x) == Cardinality({i \in 1..Len(s) : s[i] = x})

\* the archive entries that the last operation appended
Appended == SubSeq(file.archive, Len(last.pre.archive) + 1, Len(file.archive))

\* the status an operation archives with
StatusOf(op) == IF op = "check" THEN "triggered" ELSE "missed"

\* C2: over check_reminders calls with non-decreasing now, a non-recurring
\* reminder that fires leaves active and enters the archive once, as 'triggered';
\* a recurring one that fires stays in active once with its time advanced by
\* exactly 86400; and a call made at the same now as the call before it fires nothing
C2_FiresOncePerDueInterval ==
    [][CheckDue =>
         /\ \A i \in 1..Len(last'.fired) :
               LET r == last'.fired[i]
                   n == Count(last'.fired, r)
               IN  IF r.recurring
                   THEN /\ Count(file'.active, [r EXCEPT !.time = @ + Day])
                             >= n
                        /\ CountKey(file'.active, Key(r)) = CountKey(last'.pre.active, Key(r))
                   ELSE /\ CountKey(file'.active, Key(r))
                             = CountKey(last'.pre.active, Key(r)) - n
                        /\ Count(file'.archive,
                                 [r EXCEPT !.status = "triggered",
                                           !.archived_at = Readable(now)]) >= n
         /\ (last.op = "check" /\ last.at = now) => last'.fired = <<>>
      ]_vars

\* C3: check_reminders and recover_missed_reminders neither lose nor duplicate a
\* reminder: the archive keeps what it held and gains only reminders that left
\* active in the same operation, with status 'triggered' (check) or 'missed'
\* (recover); every reminder that was active is afterwards in active or among the
\* appended entries, never both, so the two lengths add up to what they were
C3_NothingLostNothingDuplicated ==
    last.op \in {"check", "recover"} =>
        /\ Len(file.archive) >= Len(last.pre.archive)
        /\ SubSeq(file.archive, 1, Len(last.pre.archive)) = last.pre.archive
        /\ Len(file.active) + Len(file.archive)
             = Len(last.pre.active) + Len(last.pre.archive)
        /\ \A i \in 1..Len(Appended) :
              /\ Appended[i].status = StatusOf(last.op)
              /\ Appended[i].archived_at = Readable(last.at)
              /\ ~Appended[i].recurring
        /\ \A i \in 1..Len(last.pre.active) :
              LET k == Key(last.pre.active[i])
              IN  CountKey(file.active, k) + CountKey(Appended, k)
                    = CountKey(last.pre.active, k)
        /\ \A i \in 1..Len(file.active) : file.active[i].status = "absent"

\* a check that archived a non-recurring reminder and re-armed a recurring one
C3_Witness ==
    /\ last.op = "check"
    /\ Len(Appended) >= 1
    /\ \E i \in 1..Len(last.fired) : last.fired[i].recurring

\* the least time' >= t with time' = time + k * 86400, for time < t
NextOccurrence(time, t) == time + Day * (((t - time) + Day - 1) \div Day)

\* what recover_missed_reminders is to leave in active: the overdue non-recurring
\* reminders are gone and the overdue recurring ones moved to their next occurrence
RecoveredActive(data, t) ==
    LET Stays(r) == r.recurring \/ r.time >= t
        kept == SelectSeq(data.active, Stays)
    IN  [i \in 1..Len(kept) |->
            IF kept[i].time < t
            THEN [kept[i] EXCEPT !.time = NextOccurrence(@, t)]
            ELSE kept[i]]

\* what recover_missed_reminders is to append to the archive
RecoveredMissed(data, t) ==
    LET Missed(r) == ~r.recurring /\ r.time < t
        gone == SelectSeq(data.active, Missed)
    IN  [i \in 1..Len(gone) |->
            [gone[i] EXCEPT !.status = "missed", !.archived_at = Readable(t)]]

\* C4: recover_missed_reminders at clock now archives every active non-recurring
\* reminder with time < now as 'missed' and removes it from active, moves every
\* active recurring reminder with time < now to the first time >= now that is a
\* whole number of days later (so now <= time < now + 86400), leaves the other
\* reminders as they are, and writes the ledger only if something changed
C4_RecoverMissed ==
    last.op = "recover" =>
        /\ file.active = RecoveredActive(last.pre, last.at)
        /\ file.archive = last.pre.archive \o RecoveredMissed(last.pre, last.at)
        /\ \A i \in 1..Len(file.active) :
              file.active[i].recurring =>
                  /\ file.active[i].time >= last.at
                  /\ \A j \in 1..Len(last.pre.active) :
                        (last.pre.active[j].recurring /\ last.pre.active[j].time < last.at
                            /\ Key(last.pre.active[j]) = Key(file.active[i]))
                        => file.active[i].time < last.at + Day
        /\ last.saved => file # last.before

\* a recovery that found a recurring reminder more than a day overdue and a
\* non-recurring one overdue
C4_Witness ==
    /\ last.op = "recover"
    /\ \E i \in 1..Len(last.pre.active) :
          last.pre.active[i].recurring /\ last.pre.active[i].time + Day < last.at
    /\ \E i \in 1..Len(last.pre.active) :
          ~last.pre.active[i].recurring /\ last.pre.active[i].time < last.at
    /\ \E i \in 1..Len(last.pre.active) : last.pre.active[i].time >= last.at

-----------------------------------------------------------------------------
(* Capacity *)

\* C8: from an empty ledger and with add calls only, the active list is as long
\* as the number of calls that returned SUCCESS; a call made at capacity returns
\* LIMIT_REACHED with the current count and leaves the ledger as it was, unwritten
C8_AddCountsAndCapacity ==
    /\ Len(file.active) = nSuccess
    /\ last.op = "add" =>
          IF Len(last.pre.active) >= MAX_REMINDERS
          THEN /\ last.ret.tag = "LIMIT_REACHED"
               /\ last.ret.count = Len(last.pre.active)
               /\ file = last.before
               /\ ~last.saved
          ELSE /\ last.ret.tag = "SUCCESS"
               /\ Len(file.active) = Len(last.pre.active) + 1

\* an add call refused at capacity, after twenty that succeeded
C8_Witness ==
    /\ last.op = "add"
    /\ last.ret.tag = "LIMIT_REACHED"
    /\ nSuccess = MAX_REMINDERS

\* C9: the active list never holds more than MAX_REMINDERS reminders, whatever
\* sequence of add, delete, snooze, wipe, check and recover calls is made
C9_ActiveWithinCapacity == Len(file.active) <= MAX_REMINDERS

\* a ledger filled to capacity by an add that followed another operation
C9_Witness ==
    /\ Len(file.active) = MAX_REMINDERS
    /\ last.op = "add"
    /\ last.ret.tag = "SUCCESS"
    /\ ops >= 2

-----------------------------------------------------------------------------
(* Startup, polling and the two tasks *)

\* run_patch is at or before its recover_missed_reminders() call
BeforeLoop == fg = "start" \/ (fg = "turn" /\ todo # <<>> /\ Head(todo).h = "recover")

\* C5: recover_missed_reminders runs once, and it has completed before
\* reminder_loop makes its first check_reminders call and before the first input
\* is acquired, although the task is created first; so no reminder that was
\* overdue when recovery ran is ever archived as 'triggered', and right after
\* recovery every overdue non-recurring reminder is in the archive as 'missed'
C5_RecoverBeforeFirstCheck ==
    /\ Len(recovered) <= 1
    /\ polled => Len(recovered) = 1
    /\ ~BeforeLoop => Len(recovered) = 1
    /\ \A i \in 1..Len(file.archive) :
          file.archive[i].status = "triggered" => file.archive[i].time >= recovered[1]
    /\ (last.op = "recover" /\ now = last.at) =>
          \A i \in 1..Len(last.pre.active) :
             LET r == last.pre.active[i]
             IN  (~r.recurring /\ r.time < last.at) =>
                    /\ \A j \in 1..Len(file.active) : file.active[j] # r
                    /\ \E j \in 1..Len(file.archive) :
                          /\ Key(file.archive[j]) = Key(r)
                          /\ file.archive[j].status = "missed"

\* the polling task has fired a reminder after recovery archived a missed one
C5_Witness ==
    /\ polled
    /\ Len(recovered) = 1
    /\ \E i \in 1..Len(file.archive) : file.archive[i].status = "missed"
    /\ \E i \in 1..Len(file.archive) : file.archive[i].status = "triggered"

\* an active reminder is due: not snoozed and its time has come
DuePending ==
    \E i \in 1..Len(file.active) :
        Eligible(file.active[i], now) /\ file.active[i].time <= now

\* C6: once the program is up, a reminder that is due does not stay due for ever:
\* reminder_loop fires it (or the program ends), in Voice mode as in Chat mode,
\* asleep as awake, and whether or not the user gives any input
C6_DueRemindersEventuallyFire ==
    [](( Len(recovered) = 1 /\ DuePending )
          => <>( ~DuePending \/ fg \in Stopped ))

\* C7: the load-mutate-save sequences of the two tasks never interleave: at most
\* one task is between its load and its save, the ledger on disk is then still
\* the one that task loaded, and every operation saved over the very ledger it
\* had loaded, so that no add, delete or wipe is undone by a check_reminders save
C7_LedgerOperationsDoNotInterleave ==
    /\ ~(held.fg # NoDoc /\ held.bg # NoDoc)
    /\ held.fg # NoDoc => file = load_reminders(held.fg, now).data
    /\ held.bg # NoDoc => file = load_reminders(held.bg, now).data
    /\ last.op # "none" => last.pre = load_reminders(last.before, last.at).data

\* reminder_loop is inside check_reminders while run_patch, which has added a
\* reminder, waits for the next typed line
C7_Witness ==
    /\ held.bg # NoDoc
    /\ fg = "awaiting"
    /\ nSuccess >= 1
    /\ \E i \in 1..Len(file.active) : file.active[i].task = "list reminders"

-----------------------------------------------------------------------------
(* Dispatch *)

\* the groups of the trigger chain, in their order of priority
GroupOrder ==
    <<"mode", "exit", "clean", "total_reset", "reset_memory", "sleep", "add", "list",
      "delete", "wipe", "summary", "weather", "search", "chat">>

\* the lowercased input holds a trigger phrase of the group
Matches(g, low) ==
    CASE g = "mode" -> Contains(low, "switch to")
      [] g = "exit" -> AnyIn(low, ExitWords)
      [] g = "clean" -> Contains(low, "clean your system")
      [] g = "total_reset" -> Contains(low, "total reset")
      [] g = "reset_memory" -> AnyIn(low, ResetWords)
      [] g = "sleep" -> AnyIn(low, SleepWords)
      [] g = "add" -> AnyIn(low, add_triggers)
      [] g = "list" -> AnyIn(low, list_triggers)
      [] g = "delete" -> AnyIn(low, delete_triggers)
      [] g = "wipe" -> \E i \in 1..Len(wipe_triggers) : Contains(low, wipe_triggers[i][1])
      [] g = "summary" -> AnyIn(low, summary_triggers)
      [] g = "weather" -> AnyIn(low, weather_triggers)
      [] g = "search" -> AnyIn(low, search_triggers)
      [] g = "chat" -> TRUE

\* the group earliest in the order of priority of which the input holds a phrase
EarliestGroup(u) ==
    GroupOrder[CHOOSE i \in 1..Len(GroupOrder) :
                  /\ Matches(GroupOrder[i], Lower(u))
                  /\ \A j \in 1..(i - 1) : ~Matches(GroupOrder[j], Lower(u))]

\* what runs when the handler of a group runs once: the search handler hands its
\* findings to the chat
HandlerRun(g) == IF g = "search" THEN <<"search", "chat">> ELSE <<g>>

\* C10: in a turn taken awake, the handler that runs is the one of the earliest
\* group in the order of priority of which the input holds a trigger phrase, and
\* no other group's handler runs
C10_DispatchByPriority ==
    (fg \in {"input", "awaiting", "done"} /\ handled # <<>>)
        => handled = HandlerRun(EarliestGroup(heard))

-----------------------------------------------------------------------------
(* The wipe handler, fallthrough, sleep, mode and exit *)

\* the earliest group of every input, and whether it wakes the program
Group == [u \in Utterances |-> EarliestGroup(u)]

HoldsWake == [u \in Utterances |-> Contains(Lower(u), "patch wake up")]

\* a turn taken awake has run its handlers and run_patch is back at its input
TurnOver == fg \in {"input", "awaiting"} /\ handled # <<>>

\* how many CONFIRM prompts the current turn has made
Asked == Cardinality({i \in 1..Len(called) : called[i].h = "confirm"})

\* how many wipe_reminders(mode) calls the current turn has made
Wiped(mode) == Count(called, Step("wipe", mode))

\* C11: the wipe handler runs once in a turn that reaches it: for an input with
\* 'wipe all reminders' the confirmation is asked for exactly once and
\* wipe_reminders("all") is called at most once, and for an input with 'wipe active
\* reminders' or 'wipe reminder archive' that wipe is called exactly once
C11_WipeHandlerRunsOnce ==
    LET low == Lower(heard)
    IN  Group[heard] = "wipe" =>
          IF Contains(low, "wipe all reminders")
          THEN /\ Asked <= 1
               /\ Wiped("all") <= 1
               /\ TurnOver => Asked = 1
          ELSE \A i \in 1..Len(wipe_triggers) :
                  /\ Wiped(wipe_triggers[i][2]) <= 1
                  /\ (TurnOver /\ Contains(low, wipe_triggers[i][1]))
                        => Wiped(wipe_triggers[i][2]) = 1

\* C12: a turn whose input holds a delete trigger (with or without a keyword), a
\* wipe trigger or a weather trigger (with or without a city), and no phrase of an
\* earlier group, is consumed by that group: no handler of another group runs in
\* it, the chat backend included, and a delete or wipe turn leaves the conversation
\* in memory and on disk as it was
C12_NoFallthrough ==
    [][ LET g == Group[heard]
        IN  (fg = "turn" /\ g \in {"delete", "wipe", "weather"}) =>
               /\ \A i \in 1..Len(handled') : handled'[i] = g
               /\ g \in {"delete", "wipe"} =>
                     (messages' = messages /\ memfile' = memfile) ]_vars

\* C13: an awake turn whose earliest group is the sleep group ends asleep; an
\* input acquired asleep that does not hold 'patch wake up' is discarded: mode,
\* sleep flag, ledger and conversation stay as they are, no handler is called and
\* run_patch goes back to acquiring input (exit, mode-switch and reminder phrases
\* included); an input that holds 'patch wake up' clears the sleep flag and changes
\* nothing else
C13_SleepWake ==
    [][ /\ (is_sleeping /\ turns' = turns + 1) =>
              /\ is_sleeping' = ~HoldsWake[heard']
              /\ interaction_mode' = interaction_mode
              /\ file' = file
              /\ messages' = messages
              /\ memfile' = memfile
              /\ handled' = <<>>
              /\ called' = <<>>
              /\ todo' = todo
              /\ fg' = "input"
        /\ (~is_sleeping /\ fg = "turn" /\ Group[heard] = "sleep" /\ fg' # "turn") =>
              /\ is_sleeping'
              /\ fg' = "input" ]_vars

\* asleep, the input 'exit' was acquired and discarded: still asleep, still running
C13_Witness ==
    /\ is_sleeping
    /\ heard = "exit"
    /\ turns = 2
    /\ fg = "input"
    /\ handled = <<>>

\* the input holds 'chat'
HoldsChat == [u \in Utterances |-> Contains(Lower(u), "chat")]

\* C14: the step of a mode-switch turn that runs the handler sets the mode to Chat
\* when the input holds 'chat' and to Voice otherwise, and leaves the sleep flag,
\* the ledger and the conversation as they were; and no step that changes the
\* sleep flag changes the mode
C14_ModeSwitchChangesOnlyMode ==
    [][ /\ (fg = "turn" /\ Group[heard] = "mode" /\ fg' # "turn") =>
              /\ interaction_mode' = IF HoldsChat[heard] THEN "Chat" ELSE "Voice"
              /\ is_sleeping' = is_sleeping
              /\ file' = file
              /\ messages' = messages
              /\ memfile' = memfile
              /\ fg' = "input"
        /\ is_sleeping' # is_sleeping => interaction_mode' = interaction_mode ]_vars

\* in Chat mode the input 'switch to voice' has put the program back in Voice mode
C14_Witness ==
    /\ interaction_mode = "Voice"
    /\ heard = "switch to voice"
    /\ handled = <<"mode">>
    /\ turns = 2
    /\ polled

\* C15: an awake turn whose earliest group is the exit group ends run_patch: the
\* step that runs its handler leaves the loop without touching the ledger or the
\* conversation, such a turn never comes back to the input, and once run_patch
\* has left its loop nothing happens any more: no input is acquired, no handler
\* runs, and reminder_loop is gone with it
C15_ExitIsTerminal ==
    /\ [](TurnOver => Group[heard] # "exit")
    /\ [](fg = "done" => (handled = <<"exit">> /\ Group[heard] = "exit" /\ bg = "none"))
    /\ [][ /\ (fg = "turn" /\ Group[heard] = "exit" /\ fg' # "turn") =>
                 /\ fg' = "done"
                 /\ file' = file
                 /\ messages' = messages
                 /\ memfile' = memfile
           /\ fg = "done" => UNCHANGED vars ]_vars

\* the second input was 'exit' and run_patch has left its loop, with reminders
\* still active in the ledger
C15_Witness ==
    /\ fg = "done"
    /\ turns = 2
    /\ heard = "exit"
    /\ Len(file.active) > 0

-----------------------------------------------------------------------------
(* What ends run_patch *)

\* C16: run_patch is over only because an awake turn held an exit phrase, or
\* because the chat backend had a resource failure and its one retry failed too;
\* nothing else ends it: no other failure of the chat backend, and no turn that
\* a handler completed
C16_LoopEndsOnlyOnExitOrFailedRetry ==
    fg \in Stopped => \/ (fg = "done" /\ Group[heard] = "exit")
                      \/ fg = "failed"

-----------------------------------------------------------------------------
(* REMINDERS_FILE on disk: json.dump, json.load and load_reminders on what it holds *)

\* The file is missing, holds text that json.load cannot parse, or holds a JSON
\* value: [null |-> TRUE], [bool |-> b], [num |-> n], [str |-> s], [arr |-> <<...>>]
\* or [obj |-> a record].  A string that strftime("%Y-%m-%d %H:%M") wrote, which
\* is what strptime accepts, is [stamp |-> m], m being the minute it names.
Missing == [missing |-> TRUE]

Unparsable == [unparsable |-> TRUE]

IsObj(j) == "obj" \in DOMAIN j

IsArr(j) == "arr" \in DOMAIN j

\* key in data, for a dict
HasKey(j, k) == IsObj(j) /\ k \in DOMAIN j.obj

\* the keys of the dict of a reminder: triggered, status and archived_at are there
\* only once snooze_reminder or archive_reminder has set them
ReminderKeys(r) ==
    {"id", "task", "time", "recurring", "snoozed_until"}
       \cup (IF r.triggered = "absent" THEN {} ELSE {"triggered"})
       \cup (IF r.status = "absent" THEN {} ELSE {"status"})
       \cup (IF r.archived_at = None THEN {} ELSE {"archived_at"})

\* json.dump of a reminder: None is written as null, the flags as true and false
DumpReminder(r) ==
    [obj |-> [k \in ReminderKeys(r) |->
        CASE k = "id" -> [str |-> r.id]
          [] k = "task" -> [str |-> r.task]
          [] k = "time" -> [num |-> r.time]
          [] k = "recurring" -> [bool |-> r.recurring]
          [] k = "snoozed_until" ->
               IF r.snoozed_until = None THEN [null |-> TRUE] ELSE [num |-> r.snoozed_until]
          [] k = "triggered" -> [bool |-> r.triggered = "True"]
          [] k = "status" -> [str |-> r.status]
          [] k = "archived_at" -> [stamp |-> r.archived_at]]]

\* save_reminders(data): what REMINDERS_FILE holds afterwards
save_reminders(data) ==
    [obj |-> [active |-> [arr |-> [i \in 1..Len(data.active) |-> DumpReminder(data.active[i])]],
              archive |-> [arr |-> [i \in 1..Len(data.archive) |-> DumpReminder(data.archive[i])]]]]

\* the dict json.load builds from the JSON object of a reminder
ParseReminder(j) ==
    LET o == j.obj
    IN  [id |-> o.id.str, task |-> o.task.str, time |-> o.time.num,
         recurring |-> o.recurring.bool,
         snoozed_until |-> IF "null" \in DOMAIN o.snoozed_until THEN None
                           ELSE o.snoozed_until.num,
         triggered |-> IF "triggered" \notin DOMAIN o THEN "absent"
                       ELSE IF o.triggered.bool THEN "True" ELSE "False",
         status |-> IF "status" \notin DOMAIN o THEN "absent" ELSE o.status.str,
         archived_at |-> IF "archived_at" \notin DOMAIN o THEN None
                         ELSE o.archived_at.stamp]

\* the ledger json.load builds from a JSON object with lists of reminders under
\* 'active' and 'archive'
ParseLedger(j) ==
    [active |-> [i \in 1..Len(j.obj.active.arr) |-> ParseReminder(j.obj.active.arr[i])],
     archive |-> [i \in 1..Len(j.obj.archive.arr) |-> ParseReminder(j.obj.archive.arr[i])]]

\* the document load_reminders returns when there is nothing it can use
DefaultDocument == [obj |-> [active |-> [arr |-> <<>>], archive |-> [arr |-> <<>>]]]

\* a load that takes a legacy document as it is
NormaliseNot(data) == data

\* the backward compatibility step: {"reminders": X} becomes {"active": X, "archive": []}
Normalise(data) ==
    IF HasKey(data, "reminders")
    THEN [obj |-> [active |-> data.obj.reminders, archive |-> [arr |-> <<>>]]]
    ELSE data

\* r["archived_at"] is there and strptime parses it
ArchiveEntryOk(e) == HasKey(e, "archived_at") /\ "stamp" \in DOMAIN e.obj.archived_at

\* load_reminders() at clock t when REMINDERS_FILE holds disk: [data, saved, removed].
\* Everything that raises inside the try gives the default document: a missing
\* file does not get there, text that does not parse raises in json.load, a value
\* that is no dict raises at '"reminders" in data' or at data["archive"], a dict
\* without 'archive' raises in prune_archive, as does an archive that has no len(),
\* or whose elements have no parsable archived_at.  An empty string or dict under
\* 'archive' does not raise and is replaced by an empty list.  Nothing looks at
\* 'active'.
load_reminders_file(disk, t) ==
    LET default == [data |-> DefaultDocument, saved |-> FALSE, removed |-> 0]
    IN  IF disk = Missing \/ disk = Unparsable \/ ~IsObj(disk) THEN default
        ELSE
          LET data == Normalise(disk)
          IN  IF ~HasKey(data, "archive") THEN default
              ELSE
                LET a == data.obj.archive
                    Keep(e) == Fresh(e.obj.archived_at.stamp, t)
                IN  IF a = [str |-> ""] \/ a = [obj |-> <<>>]
                    THEN [data |-> [obj |-> [data.obj EXCEPT !.archive = [arr |-> <<>>]]],
                          saved |-> FALSE, removed |-> 0]
                    ELSE IF IsArr(a) /\ \A i \in 1..Len(a.arr) : ArchiveEntryOk(a.arr[i])
                    THEN LET kept == SelectSeq(a.arr, Keep)
                         IN  [data |-> [obj |-> [data.obj EXCEPT !.archive = [arr |-> kept]]],
                              saved |-> Len(kept) < Len(a.arr),
                              removed |-> Len(a.arr) - Len(kept)]
                    ELSE default

\* an archived reminder: the k-th filled one, archived with the status at clock t
Archived(k, status, t) ==
    [FilledReminder(k) EXCEPT !.status = status, !.archived_at = Readable(t)]

\* the ledgers the program saves: reminders plain, recurring and snoozed, and
\* archive entries 13, 14 and 15 days old at T0
DocLedgers ==
    {EmptyLedger,
     Filled(3),
     [active |-> <<[FilledReminder(1) EXCEPT !.snoozed_until = T0 + 600,
                                             !.triggered = "False"]>>,
      archive |-> <<Archived(2, "missed", T0 - ARCHIVE_RETENTION_DAYS * Day)>>],
     [active |-> Filled(2).active,
      archive |-> <<Archived(1, "triggered", T0 - 15 * Day),
                    Archived(2, "missed", T0 - ARCHIVE_RETENTION_DAYS * Day),
                    Archived(3, "triggered", T0 - 13 * Day)>>]}

\* what REMINDERS_FILE can hold when load_reminders finds it: nothing, text that
\* is no JSON, JSON of another shape, a legacy document, or a saved ledger
DocInputs ==
    {Missing, Unparsable,
     [arr |-> <<>>],
     [str |-> "my reminders"],
     [obj |-> <<>>],
     [obj |-> [archive |-> [arr |-> <<>>]]],
     [obj |-> [active |-> [arr |-> <<>>]]],
     [obj |-> [active |-> [num |-> 5], archive |-> [arr |-> <<>>]]],
     [obj |-> [active |-> [arr |-> <<>>], archive |-> [null |-> TRUE]]],
     [obj |-> [active |-> [arr |-> <<>>], archive |-> [str |-> ""]]],
     [obj |-> [active |-> [arr |-> <<>>],
               archive |-> [arr |-> <<[obj |-> [task |-> [str |-> "call mom"]]]>>]]],
     [obj |-> [active |-> [arr |-> <<>>],
               archive |-> [arr |-> <<[obj |-> [task |-> [str |-> "call mom"],
                                                archived_at |-> [str |-> "yesterday"]]]>>]]],
     [obj |-> [reminders |-> [arr |-> <<DumpReminder(FilledReminder(1)),
                                        DumpReminder(FilledReminder(2))>>]]]}
      \cup {save_reminders(L) : L \in DocLedgers}

\* how far the clock moves between two uses of the file
DocTicks == {60, Day}

\* save_reminders(L) by the program, which holds no archive entry that its own
\* load would have pruned
DocSave(L) ==
    /\ L = prune_archive(L, now).data
    /\ file' = save_reminders(L)
    /\ last' = [op |-> "save", at |-> now, wrote |-> L]
    /\ UNCHANGED <<now, nSuccess, ticks, ops, progVars>>

\* load_reminders(); wrote is the ledger whose save the load follows, if it does
DocLoad ==
    LET res == load_reminders_file(file, now)
    IN  /\ file' = IF res.saved THEN res.data ELSE file
        /\ last' = [op |-> "load", at |-> now, before |-> file, ret |-> res.data,
                    removed |-> res.removed, disk |-> file',
                    wrote |-> IF last.op = "save" THEN last.wrote ELSE NoDoc]
        /\ UNCHANGED <<now, nSuccess, ticks, ops, progVars>>

DocTick(d) ==
    /\ ticks < MaxTicks
    /\ ticks' = ticks + 1
    /\ now' = now + d
    /\ UNCHANGED <<file, last, nSuccess, ops, progVars>>

DocSaves == \E L \in DocLedgers : DocSave(L)

DocElapses == \E d \in DocTicks : DocTick(d)

DocInit ==
    /\ ProgStart
    /\ file \in DocInputs
    /\ now = T0
    /\ last = NoOutcome
    /\ nSuccess = 0
    /\ ticks = 0
    /\ ops = 0

DocNext == DocSaves \/ DocLoad \/ DocElapses

\* the ledger file saved, loaded and found in any state, with time passing
DocSpec == DocInit /\ [][DocNext]_vars

-----------------------------------------------------------------------------
(* Properties of the ledger file *)

\* an archived reminder that is not older than the retention window at clock t
NotOlder(r, t) == r.archived_at * 60 >= t - 14 * 86400

\* the archive without the entries older than the retention window at clock t
Retained(archive, t) ==
    LET Keep(r) == NotOlder(r, t)
    IN  SelectSeq(archive, Keep)

\* loading a legacy document {reminders: X} gives {active: X, archive: []}
LegacyNormalised ==
    (last.op = "load" /\ HasKey(last.before, "reminders")) =>
        last.ret = [obj |-> [active |-> last.before.obj.reminders,
                             archive |-> [arr |-> <<>>]]]

\* C17 as stated: the load that follows save(L) returns a ledger equal to L, and a
\* legacy document is normalised
C17_RoundTrip ==
    /\ (last.op = "load" /\ last.wrote # NoDoc) => ParseLedger(last.ret) = last.wrote
    /\ LegacyNormalised

\* C17, amended: the load that follows save(L) returns L without the archive
\* entries that are older than the retention window when the load is made, all else
\* equal and in order (ids, tasks, times, flags, snooze times); it returns L itself
\* when no archive entry is that old; and a legacy document is normalised
C17_RoundTripUpToPruning ==
    /\ (last.op = "load" /\ last.wrote # NoDoc) =>
          /\ ParseLedger(last.ret) =
                [last.wrote EXCEPT !.archive = Retained(@, last.at)]
          /\ Retained(last.wrote.archive, last.at) = last.wrote.archive
                => ParseLedger(last.ret) = last.wrote
    /\ LegacyNormalised

\* a saved ledger was loaded a minute later, when one of its archive entries had
\* grown older than the retention window: the load returned the ledger without it
C17_Witness ==
    /\ last.op = "load"
    /\ last.wrote # NoDoc
    /\ Len(last.wrote.active) > 0
    /\ Len(last.wrote.archive) > Len(last.ret.obj.archive.arr)

\* the document has a list under 'active' and a list under 'archive'
WellShaped(j) ==
    /\ HasKey(j, "active") /\ IsArr(j.obj.active)
    /\ HasKey(j, "archive") /\ IsArr(j.obj.archive)

\* the file holds a ledger: well shaped, every archive entry with an archived_at
\* that parses
LedgerDocument(j) ==
    /\ WellShaped(j)
    /\ \A i \in 1..Len(j.obj.archive.arr) : ArchiveEntryOk(j.obj.archive.arr[i])

\* C18: load_reminders returns a document with a list under 'active' and a list
\* under 'archive' whatever the file holds, and the default document when the
\* file is missing, does not parse, or holds neither a legacy document nor a
\* ledger (no object, 'active' missing, 'archive' missing, an archive entry without
\* a well-formed archived_at).  (The code has no path on which load_reminders
\* raises: all of its body is inside the try.)
C18_LoadAlwaysReturnsLedger ==
    last.op = "load" =>
        /\ WellShaped(last.ret)
        /\ (~HasKey(last.before, "reminders") /\ ~LedgerDocument(last.before))
              => last.ret = DefaultDocument

\* C19: load_reminders prunes: from a file that holds a ledger it returns the
\* ledger without the archive entries older than now - 14 days and with every
\* other archive entry, in order, the active reminders as they were;
\* prune_archive's count is the number of entries removed; and when it is not 0
\* the file holds the pruned ledger afterwards.  The load of the ledger that the
\* operations of the program start with does the same.
C19_LoadPrunesArchive ==
    (last.op = "load" /\ LedgerDocument(last.before)) =>
        LET before == ParseLedger(last.before)
            after == ParseLedger(last.ret)
        IN  /\ after.active = before.active
            /\ after.archive = Retained(before.archive, last.at)
            /\ last.removed = Len(before.archive) - Len(after.archive)
            /\ last.removed > 0 => last.disk = last.ret
            /\ load_reminders(before, last.at) = [data |-> after, saved |-> last.removed > 0]

\* of archive entries 15, 14 and 13 days old the load removed the first and kept
\* the other two, and the file holds the pruned ledger
C19_Witness ==
    /\ last.op = "load"
    /\ last.at = T0
    /\ LedgerDocument(last.before)
    /\ Len(last.before.obj.archive.arr) = 3
    /\ last.removed = 1
    /\ Len(last.ret.obj.archive.arr) = 2
    /\ file = last.ret

-----------------------------------------------------------------------------
(* MEMORY_FILE: the conversation a run finds and the conversation it saves *)

\* load_memory on what MEMORY_FILE holds: the stored list, or the persona prompt
\* alone when there is no file (<<>>)
load_memory(stored) == IF stored = <<>> THEN <<Persona>> ELSE stored

\* k exchanges of an earlier run: a user message and the reply to it, k times
RECURSIVE Exchanges(_)
Exchanges(k) ==
    IF k = 0 THEN <<>>
    ELSE Exchanges(k - 1) \o <<Message("user", "question"), Message("assistant", "reply")>>

\* what an earlier run can have left in MEMORY_FILE: nothing, the persona and
\* five exchanges (11 messages), or the last 12 messages of a longer conversation
StoredMemories == {<<>>, <<Persona>> \o Exchanges(5), Exchanges(6)}

\* the program started on a MEMORY_FILE left by an earlier run
MemInit ==
    /\ memfile \in StoredMemories
    /\ messages = load_memory(memfile)
    /\ file \in BootLedgers
    /\ now = T0
    /\ last = NoOutcome
    /\ nSuccess = 0
    /\ ticks = 0
    /\ ops = 0
    /\ interaction_mode = "Voice"
    /\ is_sleeping = FALSE
    /\ fg = "start"
    /\ bg = "none"
    /\ run = "fg"
    /\ held = [fg |-> NoDoc, bg |-> NoDoc]
    /\ todo = <<>>
    /\ user_input = ""
    /\ heard = ""
    /\ handled = <<>>
    /\ turns = 0
    /\ recognizer = "Recognizer"
    /\ recovered = <<>>
    /\ polled = FALSE
    /\ called = <<>>
    /\ ollama = NoChat

\* the program from its start, with a conversation on disk
MemSpec == MemInit /\ [][Next]_vars

\* stored is the last min(12, n) messages of the n messages of conversation, in order
IsRecentTail(stored, conversation) ==
    LET n == Len(conversation)
        k == IF n < 12 THEN n ELSE 12
    IN  /\ Len(stored) = k
        /\ \A i \in 1..k : stored[i] = conversation[n - k + i]

\* C20: MEMORY_FILE never holds more than 12 messages, and whenever it has been
\* written (it exists, and run_patch has not been stopped by an exception between
\* an append and the save) it holds exactly the last min(12, n) messages of the
\* n messages in memory, in order.
C20_MemoryCappedAt12 ==
    /\ Len(memfile) <= 12
    /\ (memfile # <<>> /\ fg \notin {"failed", "crashed"}) => IsRecentTail(memfile, messages)

\* a chat, weather or search turn has been saved with more than 12 messages in
\* memory: the file holds 12 of them and no longer begins with the persona
C20_Witness ==
    /\ handled # <<>>
    /\ handled[Len(handled)] \in {"chat", "weather"}
    /\ fg \notin Stopped
    /\ Len(messages) > 12
    /\ Len(memfile) = 12
    /\ messages[1] = Persona
    /\ memfile[1] # Persona

\* C21: the first message of the conversation is always the persona prompt, in
\* memory after any number of chat turns and resets, and in what load_memory
\* returns from MEMORY_FILE after any number of saves and a restart.
C21_PersonaAlwaysFirst ==
    /\ messages[1] = Persona
    /\ load_memory(memfile)[1] = Persona

\* the same for one run only: while the conversation in memory begins with the
\* persona, so does the conversation a restart would load
C21_PersonaSurvivesSave ==
    messages[1] = Persona => load_memory(memfile)[1] = Persona

-----------------------------------------------------------------------------
(* Properties of delete, snooze and wipe *)

\* the active reminders of the loaded ledger that delete(keyword) has to keep
NotMatching(active, keyword) ==
    LET Other(r) == ~Contains(Lower(r.task), Lower(keyword))
    IN  SelectSeq(active, Other)

\* what delete(keyword) does to the active reminders and what it returns
DeleteRemoves ==
    /\ file.active = NotMatching(last.pre.active, last.arg)
    /\ last.ret.count = Len(last.pre.active) - Len(file.active)
    /\ last.saved

\* C22: delete(keyword) removes exactly the active reminders whose task holds the
\* keyword as a case-insensitive substring and returns their number; the others
\* keep content and order, the archive is unchanged, and the ledger is persisted
\* whatever the count.
C22_DeleteByKeyword ==
    last.op = "delete" =>
        /\ DeleteRemoves
        /\ file.archive = last.before.archive

\* C22 as the code has it: the archive that delete leaves is the stored archive
\* without the entries older than the retention time, which the load inside
\* delete prunes; no deleted reminder is added to it.
C22_DeleteUpToPruning ==
    last.op = "delete" =>
        /\ DeleteRemoves
        /\ file.archive = Retained(last.before.archive, last.at)

\* a delete whose keyword differs in case from the task removed a reminder, kept
\* another and found an archive entry
C22_Witness ==
    /\ last.op = "delete"
    /\ last.ret.count >= 1
    /\ Len(file.active) >= 1
    /\ Len(file.archive) >= 1
    /\ \E i \in 1..Len(last.pre.active) :
          /\ Contains(Lower(last.pre.active[i].task), Lower(last.arg))
          /\ ~Contains(last.pre.active[i].task, last.arg)

\* r has a snooze that has not elapsed at time t
Snoozed(r, t) == r.snoozed_until # None /\ r.snoozed_until # 0 /\ t < r.snoozed_until

\* the operation op, when it was the last one, announced no reminder that was
\* snoozed at the time and left every such reminder in active as it was
LeavesSnoozedAlone(op) ==
    last.op = op =>
        /\ \A i \in 1..Len(last.fired) : ~Snoozed(last.fired[i], last.at)
        /\ \A i \in 1..Len(last.pre.active) :
              Snoozed(last.pre.active[i], last.at) =>
                  Count(file.active, last.pre.active[i]) = Count(last.pre.active, last.pre.active[i])

\* C23: while now < snoozed_until neither checkDue nor recoverMissed fires,
\* re-arms or archives the reminder, whatever its time.
C23_SnoozedNotEligible ==
    /\ LeavesSnoozedAlone("check")
    /\ LeavesSnoozedAlone("recover")

\* the part of C23 that is about checkDue
C23_CheckSkipsSnoozed == LeavesSnoozedAlone("check")

-----------------------------------------------------------------------------
(* Snoozing: add, snooze_reminder and check_reminders ten minutes apart *)

\* how many operations of the snooze specification are followed
MaxSnoozeOps == 5

\* the default snooze, minutes=10, in seconds
SnoozeWait == 10 * 60

\* ids given to snooze: the first two reminders and one that no reminder has
SnoozeTargets == {"rem_001", "rem_002", "rem_009"}

\* one more step of the snooze specification
SnoozeCounted == ops < MaxSnoozeOps /\ ops' = ops + 1 /\ UNCHANGED progVars

SnoozeAdd == \E c \in AddCalls : SnoozeCounted /\ Add(c[1], c[2])

SnoozeCall == \E id \in SnoozeTargets : SnoozeCounted /\ Snooze(id)

SnoozeCheck == SnoozeCounted /\ CheckDue

\* ten minutes pass
SnoozeTick == SnoozeCounted /\ Elapse(SnoozeWait)

SnoozeInit ==
    /\ ProgStart
    /\ file \in BootLedgers
    /\ now = T0
    /\ last = NoOutcome
    /\ nSuccess = 0
    /\ ticks = 0
    /\ ops = 0

SnoozeNext ==
    \/ SnoozeAdd
    \/ SnoozeCall
    \/ SnoozeCheck
    \/ SnoozeTick

\* reminders added, snoozed and checked, the clock moving by the snooze time
SnoozeSpec == SnoozeInit /\ [][SnoozeNext]_vars

\* r carries a snooze that had elapsed at time t
SnoozeElapsed(r, t) == r.snoozed_until # None /\ r.snoozed_until # 0 /\ t >= r.snoozed_until

\* C24: after a checkDue no reminder of the persisted ledger carries a
\* snoozed_until that had elapsed at the time of that check, whether or not the
\* reminder was due in the call: a load or list that follows shows no such field.
C24_ElapsedSnoozeClearedOnDisk ==
    last.op = "check" =>
        \A i \in 1..Len(file.active) : ~SnoozeElapsed(file.active[i], last.at)

\* the same for a checkDue in which no reminder was due
C24_ClearedWhenNothingFired ==
    (last.op = "check" /\ last.fired = <<>>) =>
        \A i \in 1..Len(file.active) : ~SnoozeElapsed(file.active[i], last.at)

\* some active reminder of the ledger carries the id
HasId(data, id) == \E i \in 1..Len(data.active) : data.active[i].id = id

\* what snooze(id, minutes) does, archive being the archive it has to leave
SnoozeSets(archive) ==
    IF HasId(last.pre, last.arg)
    THEN /\ last.ret.tag = "SNOOZED"
         /\ last.saved
         /\ file.archive = archive
         /\ Len(file.active) = Len(last.before.active)
         /\ \E k \in 1..Len(file.active) :
               /\ last.before.active[k].id = last.arg
               /\ file.active[k] = [last.before.active[k] EXCEPT
                                        !.snoozed_until = last.at + SnoozeWait,
                                        !.triggered = "False"]
               /\ \A j \in 1..Len(file.active) :
                     j # k => file.active[j] = last.before.active[j]
    ELSE /\ last.ret.tag = "NOT_FOUND"
         /\ file.active = last.before.active
         /\ file.archive = archive

\* C25: snooze(id, minutes) on an id present in active sets snoozed_until to
\* now + minutes*60 and triggered to false on one reminder with that id, leaves
\* every other reminder and the archive unchanged, persists and returns true; on
\* an id not present it returns false and leaves the persisted ledger unchanged.
C25_Snooze ==
    last.op = "snooze" =>
        /\ SnoozeSets(last.before.archive)
        /\ ~HasId(last.pre, last.arg) => ~last.saved

\* C25 as the code has it: in both cases the archive is the stored archive
\* without the entries older than the retention time, and a snooze that finds
\* no reminder writes the ledger exactly when that pruning removed an entry.
C25_SnoozeUpToPruning ==
    last.op = "snooze" =>
        /\ SnoozeSets(Retained(last.before.archive, last.at))
        /\ ~HasId(last.pre, last.arg) =>
               (last.saved <=> file.archive # last.before.archive)

\* a reminder that had been snoozed before was snoozed again, next to another
\* reminder
C25_Witness ==
    /\ last.op = "snooze"
    /\ last.ret.tag = "SNOOZED"
    /\ Len(file.active) >= 2
    /\ \E k \in 1..Len(file.active) :
          /\ last.pre.active[k].id = last.arg
          /\ last.pre.active[k].snoozed_until # None
          /\ file.active[k].snoozed_until = last.at + SnoozeWait

\* what wipe(scope) does to a ledger whose archive, when the wipe begins, is archive
WipeClears(archive) ==
    CASE last.arg = "active" ->
           /\ last.ret = [tag |-> "ACTIVE", count |-> Len(last.before.active)]
           /\ file.active = <<>>
           /\ file.archive = archive
      [] last.arg = "archive" ->
           /\ last.ret = [tag |-> "ARCHIVE", count |-> Len(archive)]
           /\ file.active = last.before.active
           /\ file.archive = <<>>
      [] last.arg = "all" ->
           /\ last.ret = [tag |-> "ALL", count |-> Len(last.before.active) + Len(archive)]
           /\ file.active = <<>>
           /\ file.archive = <<>>
      [] OTHER ->
           /\ last.ret.tag = "INVALID"
           /\ file.active = last.before.active
           /\ file.archive = archive

\* C26: wipe('active') empties active and leaves archive unchanged, 'archive'
\* empties archive and leaves active unchanged, 'all' empties both; the count
\* returned is the number of entries removed, for 'all' the sum; any other scope
\* returns INVALID and leaves the ledger unchanged.
C26_Wipe == last.op = "wipe" => WipeClears(last.before.archive)

\* C26 as the code has it: the archive that wipe counts, keeps ('active') or
\* leaves (INVALID) is the stored archive without the entries older than the
\* retention time, which the load inside wipe prunes.
C26_WipeUpToPruning == last.op = "wipe" => WipeClears(Retained(last.before.archive, last.at))

\* wipe('all') on a ledger with active reminders and archive entries returned
\* their sum and left two empty lists
C26_Witness ==
    /\ last.op = "wipe"
    /\ last.arg = "all"
    /\ Len(last.before.active) >= 1
    /\ Len(last.before.archive) >= 1
    /\ last.ret.count = Len(last.before.active) + Len(last.before.archive)
    /\ file = EmptyLedger

-----------------------------------------------------------------------------
(* Properties of add: ids and times *)

\* C27: the id given by add is rem_NNN, NNN being the length of active before
\* the add plus one, in three digits; the reminder with that id is the one
\* appended.  (That two different active reminders then come to carry one id is
\* the state C27_Witness.)
C27_IdFromActiveLength ==
    (last.op = "add" /\ last.ret.tag = "SUCCESS") =>
        LET n == Len(last.pre.active)
        IN  /\ Len(file.active) = n + 1
            /\ last.ret.id = "rem_" \o Pad3(n + 1)
            /\ file.active[n + 1].id = last.ret.id

\* after a delete and an add, two different active reminders carry the same id
C27_Witness ==
    /\ last.op = "add"
    /\ last.ret.tag = "SUCCESS"
    /\ \E i \in 1..(Len(file.active) - 1) :
          /\ file.active[i].id = last.ret.id
          /\ file.active[i] # file.active[Len(file.active)]

-----------------------------------------------------------------------------
(* The times of add: what the user says, at different times of the day *)

\* how many add calls of the time specification are followed
MaxTimeOps == 2

\* what the user says, with what the phrase in it asks for: after seconds from
\* now ("relative"), now + 1h ("none"), hour:minute tomorrow ("tomorrow"), or a
\* clock that no day has ("invalid")
Phrase(said, kind, after, hour, minute) ==
    [said |-> said, kind |-> kind, after |-> after, hour |-> hour, minute |-> minute]

TimePhrases ==
    {Phrase("remind me to water plants in 10 minutes", "relative", 600, 0, 0),
     Phrase("Remind me to stretch in 2 hours", "relative", 7200, 0, 0),
     Phrase("remind me to nap in 1 hr", "relative", 3600, 0, 0),
     Phrase("remind me to rest in 45min", "relative", 2700, 0, 0),
     Phrase("remind me to blink in 0 minutes", "relative", 0, 0, 0),
     Phrase("remind me in 5 min to call at 7 tomorrow", "relative", 300, 0, 0),
     Phrase("remind me to call mom", "none", 3600, 0, 0),
     Phrase("remind me to call mom tomorrow at 9", "tomorrow", 0, 9, 0),
     Phrase("remind me to shop tomorrow 9:30am", "tomorrow", 0, 9, 30),
     Phrase("remind me tomorrow 5 pm to cook", "tomorrow", 0, 17, 0),
     Phrase("remind me to nap at 25", "invalid", 0, 25, 0),
     Phrase("remind me to eat at 5:75", "invalid", 0, 5, 75),
     Phrase("remind me to run at 1pm", "at", 0, 13, 0),
     Phrase("remind me to jog tomorrow 13pm", "invalid", 0, 25, 0)}

\* the phrase record of what was said
PhraseOf(said) == CHOOSE ph \in TimePhrases : ph.said = said

\* the times of the day at which the first add is made: 06:00 and 12:00 of
\* 2024-01-01
TimeClocks == {T0 - 6 * Hour, T0}

\* add(task, raw_input) as run_patch calls it for what the user said
TimeAdd ==
    \E ph \in TimePhrases :
        LET res == add_reminder(file, extract_task_with_regex(ph.said, "remind me"),
                                ph.said, FALSE, now)
        IN  /\ ops < MaxTimeOps
            /\ ops' = ops + 1
            /\ file' = res.file
            /\ last' = Outcome("add", ph.said, file, res, <<>>)
            /\ nSuccess' = IF res.ret.tag = "SUCCESS" THEN nSuccess + 1 ELSE nSuccess
            /\ UNCHANGED <<now, ticks, progVars>>

\* seven hours pass: from the morning to the afternoon, from noon to the evening
TimeTick ==
    /\ ticks < MaxTicks
    /\ ticks' = ticks + 1
    /\ now' = now + 7 * Hour
    /\ UNCHANGED <<file, last, nSuccess, ops, progVars>>

TimeInit ==
    /\ ProgStart
    /\ file = EmptyLedger
    /\ now \in TimeClocks
    /\ last = NoOutcome
    /\ nSuccess = 0
    /\ ticks = 0
    /\ ops = 0

TimeNext == TimeAdd \/ TimeTick

\* add calls with time phrases, at several times of the day
TimeSpec == TimeInit /\ [][TimeNext]_vars

\* the reminder that the last add appended
Added == file.active[Len(file.active)]

\* 00:00:00 of the calendar day of t
Midnight(t) == t - (t % Day)

\* C28: add never raises: whatever the user says, hours outside 0..23 and
\* minutes outside 0..59 included, add returns SUCCESS or LIMIT_REACHED.
C28_AddNeverRaises ==
    last.op = "add" => last.ret.tag \in {"SUCCESS", "LIMIT_REACHED"}

\* C29: an input with 'in N minutes' (or min, hour, hr) gives the time
\* now + N*60 (or N*3600) seconds, also when an 'at H' or 'tomorrow' phrase comes
\* with it; an input with no time phrase gives now + 3600.
C29_RelativeTime ==
    (last.op = "add" /\ PhraseOf(last.arg).kind \in {"relative", "none"}) =>
        /\ last.ret.tag = "SUCCESS"
        /\ Added.time = last.at + PhraseOf(last.arg).after
        /\ last.ret.readable = Added.time \div 60

\* an add with 'in 5 min' before 'at 7 tomorrow' was made in the evening and
\* got its time five minutes later
C29_Witness ==
    /\ last.op = "add"
    /\ last.arg = "remind me in 5 min to call at 7 tomorrow"
    /\ last.at = T0 + 7 * Hour
    /\ Added.time = last.at + 300

\* C30: an input with 'tomorrow' and a clock time H[:MM][am|pm], with or
\* without 'at' before it, gives H:MM of the calendar day after now, whatever
\* the time of the day.
C30_TomorrowClock ==
    (last.op = "add" /\ PhraseOf(last.arg).kind = "tomorrow") =>
        /\ last.ret.tag = "SUCCESS"
        /\ Added.time = Midnight(last.at) + Day + PhraseOf(last.arg).hour * Hour
                                           + PhraseOf(last.arg).minute * 60

\* the same for the inputs in which no 'at' comes before the clock time
C30_TomorrowWithoutAt ==
    (/\ last.op = "add"
     /\ PhraseOf(last.arg).kind = "tomorrow"
     /\ ~Contains(Lower(last.arg), "at ")) =>
        /\ last.ret.tag = "SUCCESS"
        /\ Added.time = Midnight(last.at) + Day + PhraseOf(last.arg).hour * Hour
                                           + PhraseOf(last.arg).minute * 60

-----------------------------------------------------------------------------
(* The list turn, the chat backend and speech inside ledger operations *)

\* the step is the one in which the list handler of run_patch finishes:
\* list_reminders() has returned and the reminders have been spoken
ListTurnEnds ==
    /\ Len(called') = Len(called) + 1
    /\ called'[Len(called')].h = "list"

\* what a list turn leaves alone apart from the recognizer
ListKeeps ==
    /\ file'.active = file.active
    /\ interaction_mode' = interaction_mode
    /\ is_sleeping' = is_sleeping
    /\ messages' = messages
    /\ memfile' = memfile

\* C31: the list turn leaves the active reminders, the mode, the sleeping flag,
\* the conversation (in memory and stored) and the speech recognizer r as they
\* were, so that the next turn takes its input as it would have without it.
C31_ListDoesNotMutate ==
    [][ListTurnEnds => (ListKeeps /\ recognizer' = recognizer)]_vars

\* the part of C31 that is not about the recognizer
C31_ListKeepsLedgerAndSession == [][ListTurnEnds => ListKeeps]_vars

\* the step is one in which a handler of run_patch calls safe_ollama_chat
ChatCalled == ollama = NoChat /\ ollama' # NoChat

\* the text of an exception names a resource failure
NamesResource(err) == \E w \in {"cuda", "allocate", "vram"} : Contains(Lower(err), w)

\* the step completes the turn as a chat turn does: nothing stops run_patch, and
\* for the chat and weather handlers the user's and the assistant's messages are
\* appended and the conversation is saved
CompletesNormally ==
    /\ fg' \notin Stopped
    /\ handled'[Len(handled')] \in {"chat", "weather"} =>
          /\ Len(messages') = Len(messages) + 2
          /\ SubSeq(messages', 1, Len(messages)) = messages
          /\ messages'[Len(messages) + 1].role = "user"
          /\ messages'[Len(messages) + 2].role = "assistant"
          /\ IsRecentTail(memfile', messages')

\* C32: a chat call that fails with a resource failure (cuda, allocate or vram in
\* the error text) is retried exactly once with OLLAMA_NUM_GPU forced to 0; when
\* the retry replies the turn completes as a chat turn, when it fails run_patch is
\* stopped by the failure; a call that replies at once is not repeated, and a
\* call that fails otherwise is not retried and stops run_patch.
C32_ChatRetry ==
    [][ChatCalled =>
          LET made == ollama'.answers
          IN  IF made[1] = "reply"
              THEN Len(made) = 1 /\ CompletesNormally
              ELSE IF NamesResource(made[1])
              THEN /\ Len(made) = 2
                   /\ ollama'.gpu[2] = "0"
                   /\ IF made[2] = "reply" THEN CompletesNormally ELSE fg' \in Stopped
              ELSE Len(made) = 1 /\ fg' \in Stopped]_vars

\* a chat turn went through a resource failure and a retry that replied: run_patch
\* goes on, with the reply as the last message of the saved conversation
C32_Witness ==
    /\ ollama.answers = <<"CUDA error: out of memory", "reply">>
    /\ ollama.gpu = <<"proactive", "0">>
    /\ handled # <<>>
    /\ handled[Len(handled)] = "chat"
    /\ fg = "input"
    /\ messages[Len(messages)].role = "assistant"
    /\ memfile = messages

\* what a ledger operation calls, in the order of its code: load_reminders, then
\* for check_reminders and recover_missed_reminders one speak per reminder
\* announced, inside the loop, then save_reminders when something changed; the
\* other operations do not speak
Calls(op, fired, saved) ==
    CASE op \in {"check", "recover"} ->
           <<"load">> \o [i \in 1..Len(fired) |-> "speak"]
                      \o (IF fired # <<>> THEN <<"save">> ELSE <<>>)
      [] op \in {"add", "delete", "snooze", "wipe"} ->
           <<"load">> \o (IF saved THEN <<"save">> ELSE <<>>)
      [] OTHER -> <<>>

\* the calls of the last ledger operation
LastCalls == Calls(last.op, last.fired, last.saved)

\* C33: in no ledger operation, checkDue and recoverMissed included, is the
\* speech sink called between the load of the ledger and the save that follows.
C33_NoSpeechBetweenLoadAndSave ==
    \A i, j, k \in 1..Len(LastCalls) :
        (i < j /\ j < k) =>
            ~(LastCalls[i] = "load" /\ LastCalls[j] = "speak" /\ LastCalls[k] = "save")

\* C34: no reminder is created in the past: whenever add succeeds, the time it
\* stored is at or after the clock reading at which add was called.
C34_NeverInThePast ==
    (last.op = "add" /\ last.ret.tag = "SUCCESS") => Added.time >= last.at

\* 'at 1pm' was said at 19:00, after that time of the day, and the reminder got
\* 13:00 of the next day
C34_Witness ==
    /\ last.op = "add"
    /\ last.ret.tag = "SUCCESS"
    /\ last.arg = "remind me to run at 1pm"
    /\ last.at = T0 + 7 * Hour
    /\ Added.time = Midnight(last.at) + Day + 13 * Hour

=============================================================================
